---- MODULE Spec2Model ----
(***************************************************************************)
(* Model of the Resumir side panel: the handleSummarize request pipeline   *)
(* of App (transcript extraction, generation through withTimeoutAndRetry,  *)
(* background improveResult, cancellation tokens, manual-retry timer,      *)
(* credential invalidation) and of the LLM service functions it calls      *)
(* (ensureCredentials, analyzeVideo, answerUserQuestion, improveResult,    *)
(* validateAndFixResult, applyCorrections, sanitizeKeyMoments).            *)
(*                                                                         *)
(* Optional values (T | null | undefined) are sequences of length <= 1.    *)
(***************************************************************************)
EXTENDS Integers, Sequences, FiniteSets, TLC

\* ---------------------------------------------------------------- bounds
\* number of handleSummarize calls in one behaviour
MaxRequests == 2

\* number of service calls in one behaviour of SpecService
MaxCalls == 2

\* ------------------------------------------------------ program constants
MAX_RETRY_ATTEMPTS == 3

TRANSCRIPT_MIN_LENGTH == 50

Requests == 1..MaxRequests

Ops == {"answer", "summary"}

\* ------------------------------------------------------------- strings
\* The string values of the model: empty, blank, trimmed and padded texts and
\* timestamps.
Str == {"", " ", "a", " a ", "b", "key", " key ", "01:00", " 01:00 ", "02:00",
        "01:00 - 02:00"}

\* String.prototype.trim on Str
Trim(s) == CASE s = " " -> ""
             [] s = " a " -> "a"
             [] s = " key " -> "key"
             [] s = " 01:00 " -> "01:00"
             [] OTHER -> s

\* ------------------------------------------------------------- errors
\* An Error as the code inspects it: its name, its message, whether the
\* message contains 'network' / 'fetch' / 'connection', and whether it
\* contains one of the authErrorPatterns.
MkErr(name, msg, net, auth) == [name |-> name, msg |-> msg, net |-> net, auth |-> auth]

NoErr == MkErr("", "", FALSE, FALSE)

\* new TimeoutError(`${operationName} timed out after ... seconds`)
TimeoutErr == MkErr("TimeoutError", "timed out", FALSE, FALSE)

\* new Error(`${context} returned invalid JSON`)
ParseErr == MkErr("Error", "returned invalid JSON", FALSE, FALSE)

\* new Error('API Key not configured')
CredentialsErr == MkErr("Error", "API Key not configured", FALSE, FALSE)

\* TypeError of validateAndFixResult / applyCorrections on a malformed payload
ShapeErr == MkErr("TypeError", "Cannot read properties of undefined", FALSE, FALSE)

\* provider rejections and transport failures surfaced by the SDK
AuthErr == MkErr("Error", "invalid api key", FALSE, TRUE)

NetworkErr == MkErr("TypeError", "Failed to fetch", TRUE, FALSE)

FetchAuthErr == MkErr("Error", "Error fetching: permission denied", TRUE, TRUE)

ProviderErrors == {AuthErr, NetworkErr, FetchAuthErr}

\* errors thrown by handleSummarize while extracting the transcript
CaptionsMissingErr == MkErr("Error", "errors.captionsMissing", FALSE, FALSE)

CommunicationErr == MkErr("Error", "errors.communication", FALSE, FALSE)

TranscriptShortErr == MkErr("Error", "errors.transcriptShort", FALSE, FALSE)

\* isRetryable of withTimeoutAndRetry
IsRetryable(e) == e.name = "TimeoutError" \/ e.net \/ e.name = "TypeError"

\* the attempt bound off by one
CanRetryOneMore(attempt, e) == IsRetryable(e) /\ attempt <= MAX_RETRY_ATTEMPTS

\* every failure retried
CanRetryAnyError(attempt, e) == attempt < MAX_RETRY_ATTEMPTS

\* if (isRetryable && attempt < maxAttempts)
CanRetry(attempt, e) == IsRetryable(e) /\ attempt < MAX_RETRY_ATTEMPTS

\* isTimeoutErr of handleSummarize's catch
IsTimeoutErr(e) == e.name = "TimeoutError"

\* isNetworkErr of handleSummarize's catch
IsNetworkErr(e) == e.net \/ e.name = "TypeError"

\* authErrorPatterns.some(pattern => loweredMessage.includes(pattern))
IsAuthErr(e) == e.auth

\* errorMessage chosen by handleSummarize's catch
ErrorMessage(e) == IF IsTimeoutErr(e) THEN "errors.timeout"
                   ELSE IF IsNetworkErr(e) THEN "errors.networkError"
                   ELSE e.msg

\* ------------------------------------------------- results and sanitizers
\* a JSON value that is not a string (number, object, missing)
NonString == "<non-string>"

\* '00:00', the timestamp applyCorrections falls back to
DefaultTimestamp == "00:00"

\* typeof v === 'string' ? v.trim() : ''
StringOrEmpty(v) == IF v = NonString THEN "" ELSE Trim(v)

\* entries kept when only the timestamp is non-empty
SanitizeKeyMomentsTimestampOnly(moments) ==
    LET mapped == [i \in 1..Len(moments) |->
                     [timestamp |-> StringOrEmpty(moments[i].timestamp),
                      description |-> StringOrEmpty(moments[i].description)]]
        Keep(m) == m.timestamp # ""
    IN  SelectSeq(mapped, Keep)

\* sanitizeKeyMoments on an array: trim both fields, drop entries with an
\* empty one
SanitizeKeyMoments(moments) ==
    LET mapped == [i \in 1..Len(moments) |->
                     [timestamp |-> StringOrEmpty(moments[i].timestamp),
                      description |-> StringOrEmpty(moments[i].description)]]
        Keep(m) == m.timestamp # "" /\ m.description # ""
    IN  SelectSeq(mapped, Keep)

\* sanitizeUserAnswer: trimmed text, trimmed non-empty relatedSegments
SanitizeUserAnswer(value) ==
    LET segs == [i \in 1..Len(value.relatedSegments) |->
                    StringOrEmpty(value.relatedSegments[i])]
        NonEmpty(x) == x # ""
    IN  [text |-> StringOrEmpty(value.text),
         relatedSegments |-> SelectSeq(segs, NonEmpty)]

\* the object analyzeVideo returns for a decoded response
AnalysisOf(response) ==
    [summary |-> IF response.summary = NonString THEN "" ELSE response.summary,
     keyMoments |-> IF response.isArray THEN SanitizeKeyMoments(response.keyMoments)
                    ELSE << >>]

\* decoded model responses to the summary prompt
AnalysisResponses ==
    { [summary |-> "a", isArray |-> TRUE,
       keyMoments |-> << [timestamp |-> "01:00", description |-> "a"] >>],
      [summary |-> " a ", isArray |-> TRUE,
       keyMoments |-> << [timestamp |-> " 01:00 ", description |-> " a "],
                         [timestamp |-> "", description |-> "a"],
                         [timestamp |-> "02:00", description |-> " "] >>] }

\* decoded model responses to the question prompt
AnswerResponses ==
    { [text |-> " a ", relatedSegments |-> << "01:00 - 02:00", " " >>] }

\* initialResult of handleSummarize; src identifies the request whose provider
\* responses the object was built from
InitialResult(r, q, answer, analysis) ==
    [src |-> r,
     summary |-> analysis.summary,
     keyMoments |-> analysis.keyMoments,
     customAnswer |-> IF q THEN << answer >> ELSE << >>]

\* ------------------------------------------------------ applyCorrections
\* A ValidationIssue: field, index (optional), hasCorrection (false when the
\* payload has no correction object), action, value (optional).  A value is
\* [isString, str, text, description, timestamp, relatedSegments]; a missing
\* property of an object value is "".
StringValue(s) ==
    [isString |-> TRUE, str |-> s, text |-> "", description |-> "",
     timestamp |-> "", relatedSegments |-> << >>]

ObjectValue(text, description, timestamp, segs) ==
    [isString |-> FALSE, str |-> "", text |-> text, description |-> description,
     timestamp |-> timestamp, relatedSegments |-> segs]

Issue(field, index, action, value) ==
    [field |-> field, index |-> index, hasCorrection |-> TRUE,
     action |-> action, value |-> value]

\* JavaScript truthiness of correction.value
Truthy(value) == value # << >> /\ (value[1].isString => value[1].str # "")

\* a.field.localeCompare(b.field) on the three field names
FieldRank(f) == CASE f = "customAnswer" -> 0
                  [] f = "keyMoments" -> 1
                  [] OTHER -> 2

\* index ?? 0
IndexOrZero(i) == IF i.index = << >> THEN 0 ELSE i.index[1]

\* issues of the same kind ordered by ascending index
IssueBeforeAscending(a, b) ==
    IF a.field # b.field THEN FieldRank(a.field) < FieldRank(b.field)
    ELSE IF a.action = "remove" /\ b.action # "remove" THEN FALSE
    ELSE IF a.action # "remove" /\ b.action = "remove" THEN TRUE
    ELSE IndexOrZero(a) - IndexOrZero(b) < 0

\* the comparator of applyCorrections' sort: a goes before b
IssueBefore(a, b) ==
    IF a.field # b.field THEN FieldRank(a.field) < FieldRank(b.field)
    ELSE IF a.action = "remove" /\ b.action # "remove" THEN FALSE
    ELSE IF a.action # "remove" /\ b.action = "remove" THEN TRUE
    ELSE IndexOrZero(b) - IndexOrZero(a) < 0

RECURSIVE InsertIssue(_, _)
\* stable insertion of x into the sorted sequence s
InsertIssue(s, x) ==
    IF s = << >> THEN << x >>
    ELSE IF IssueBefore(x, s[Len(s)])
         THEN Append(InsertIssue(SubSeq(s, 1, Len(s) - 1), x), s[Len(s)])
         ELSE Append(s, x)

RECURSIVE SortIssues(_)
\* [...issues].sort(comparator), a stable sort
SortIssues(issues) ==
    IF issues = << >> THEN << >>
    ELSE InsertIssue(SortIssues(SubSeq(issues, 1, Len(issues) - 1)),
                     issues[Len(issues)])

\* keyMoments.splice(index, 1)
Splice(s, index) ==
    IF index + 1 > Len(s) THEN s
    ELSE SubSeq(s, 1, index) \o SubSeq(s, index + 2, Len(s))

\* a || b || c on strings
Or3(a, b, c) == IF a # "" THEN a ELSE IF b # "" THEN b ELSE c

\* one iteration of applyCorrections' loop
ApplyIssue(res, issue) ==
    LET v == issue.value[1]
        n == Len(res.keyMoments)
    IN
    CASE issue.field = "summary" ->
           IF issue.action = "replace" /\ Truthy(issue.value)
           THEN LET newValue == IF v.isString THEN v.str
                                ELSE Or3(v.text, v.description, "")
                IN  IF newValue # "" THEN [res EXCEPT !.summary = newValue] ELSE res
           ELSE res
      [] issue.field = "keyMoments" ->
           IF issue.index # << >> /\ issue.index[1] >= 0
           THEN LET index == issue.index[1] IN
                IF issue.action = "remove"
                THEN [res EXCEPT !.keyMoments = Splice(@, index)]
                ELSE IF issue.action = "replace" /\ Truthy(issue.value)
                THEN LET newMoment ==
                           [timestamp |-> Or3(v.timestamp,
                                              IF index < n
                                              THEN res.keyMoments[index + 1].timestamp
                                              ELSE "",
                                              DefaultTimestamp),
                            description |-> Or3(v.description, v.text, "")]
                     IN  IF index < n
                         THEN [res EXCEPT !.keyMoments[index + 1] = newMoment]
                         ELSE res
                ELSE res
           ELSE IF issue.action = "add" /\ Truthy(issue.value)
           THEN [res EXCEPT !.keyMoments =
                    Append(@, [timestamp |-> Or3(v.timestamp, "", DefaultTimestamp),
                               description |-> Or3(v.description, v.text, "")])]
           ELSE res
      [] issue.field = "customAnswer" ->
           IF issue.action = "remove"
           THEN [res EXCEPT !.customAnswer = << >>]
           ELSE IF (issue.action = "replace" /\ Truthy(issue.value))
                   \/ (issue.action = "add" /\ Truthy(issue.value)
                       /\ res.customAnswer = << >>)
           THEN [res EXCEPT !.customAnswer =
                    << [text |-> v.text, relatedSegments |-> v.relatedSegments] >>]
           ELSE res
      [] OTHER -> res

RECURSIVE ApplyAll(_, _)
ApplyAll(res, issues) ==
    IF issues = << >> THEN res
    ELSE ApplyAll(ApplyIssue(res, Head(issues)), Tail(issues))

\* applyCorrections throws a TypeError when the loop reads correction.action
\* of an issue of a known field that has no correction object
ApplyCorrectionsThrows(issues) ==
    \E i \in 1..Len(issues) :
        /\ ~issues[i].hasCorrection
        /\ issues[i].field \in {"summary", "keyMoments", "customAnswer"}

\* applyCorrections(result, issues) when it does not throw
ApplyCorrections(res, issues) == ApplyAll(res, SortIssues(issues))

\* { ...result }: a copy that shares the keyMoments array with result
SpreadCopyShares == {"keyMoments"}

\* JSON.parse(JSON.stringify(result)): the parts of result that
\* correctedResult shares with it by reference
JsonCopyShares == {}

\* [...issues].sort(...) sorts a copy of the issues array
SortsCopy == TRUE

\* The arguments of applyCorrections after the call.  The loop mutates
\* correctedResult: splices of and assignments into its keyMoments array show
\* in result when the array is shared; assignments to summary and customAnswer
\* replace properties of correctedResult itself.  issues is reordered when it
\* is sorted in place.
ArgumentsAfter(res, issues) ==
    [result |-> IF "keyMoments" \in JsonCopyShares
                THEN [res EXCEPT !.keyMoments = ApplyCorrections(res, issues).keyMoments]
                ELSE res,
     issues |-> IF SortsCopy THEN issues ELSE SortIssues(issues)]

\* --------------------------------------------------- validateAndFixResult
\* a failed validation call reported as an invalid result with a correction
ValidationOnFailureInvalid ==
    [isNull |-> FALSE, isValid |-> FALSE,
     issues |-> << << Issue("summary", << >>, "replace", << StringValue("b") >>) >> >>]

\* what validateResult returns when invokeModelForJson throws
ValidationOnFailure == [isNull |-> FALSE, isValid |-> TRUE, issues |-> << << >> >>]

\* Decoded validation payloads: isNull for JSON null, issues optional
\* (<< >> when the payload has no issues array).
ValidationPayload(isValid, issues) ==
    [isNull |-> FALSE, isValid |-> isValid, issues |-> issues]

NullPayload == [isNull |-> TRUE, isValid |-> FALSE, issues |-> << >>]

\* validateAndFixResult throws: payload null, issues missing, or
\* applyCorrections throws
ValidateAndFixThrows(validation) ==
    \/ validation.isNull
    \/ ~validation.isValid /\ validation.issues = << >>
    \/ ~validation.isValid /\ validation.issues # << >>
       /\ Len(validation.issues[1]) > 0
       /\ ApplyCorrectionsThrows(validation.issues[1])

\* corrections applied whenever there are issues, whatever isValid says
ValidateAndFixIgnoringVerdict(res, validation) ==
    IF validation.issues = << >> \/ Len(validation.issues[1]) = 0
    THEN [applied |-> FALSE,
          result |-> [res EXCEPT !.keyMoments = SanitizeKeyMoments(res.keyMoments)]]
    ELSE LET correctedResult == ApplyCorrections(res, validation.issues[1])
         IN  [applied |-> TRUE,
              result |-> [correctedResult EXCEPT
                            !.keyMoments = SanitizeKeyMoments(correctedResult.keyMoments)]]

\* validateAndFixResult after validateResult returned: the result it returns,
\* and whether it called applyCorrections
ValidateAndFix(res, validation) ==
    IF validation.isValid \/ Len(validation.issues[1]) = 0
    THEN [applied |-> FALSE,
          result |-> [res EXCEPT !.keyMoments = SanitizeKeyMoments(res.keyMoments)]]
    ELSE LET correctedResult == ApplyCorrections(res, validation.issues[1])
         IN  [applied |-> TRUE,
              result |-> [correctedResult EXCEPT
                            !.keyMoments = SanitizeKeyMoments(correctedResult.keyMoments)]]

\* the result validateAndFixResult returns for a validation it got
ValidateAndFixResult(res, validation) == ValidateAndFix(res, validation).result

\* the key tested without trimming
EnsureCredentialsNoTrim(credentials) ==
    credentials # << >> /\ credentials[1] # ""

\* ensureCredentials passes: credentials present and key.trim() non-empty
EnsureCredentials(credentials) ==
    credentials # << >> /\ Trim(credentials[1]) # ""

\* the three exported calls of the service
ServiceFns == {"answerUserQuestion", "analyzeVideo", "improveResult"}

\* The synchronous prefix of answerUserQuestion, analyzeVideo and improveResult
\* up to the first model invocation: ensureCredentials, the prompt, createLLM,
\* the write of lastAnalysisPrompt (analyzeVideo only).  prompt identifies the
\* prompt the call builds, lap is lastAnalysisPrompt before the call.
ServiceEntry(fn, credentials, prompt, lap) ==
    IF ~EnsureCredentials(credentials)
    THEN [threw |-> TRUE, err |-> CredentialsErr, promptBuilt |-> FALSE,
          llm |-> FALSE, invoked |-> FALSE, wrotePrompt |-> FALSE,
          lastAnalysisPrompt |-> lap]
    ELSE [threw |-> FALSE, err |-> NoErr, promptBuilt |-> TRUE,
          llm |-> TRUE, invoked |-> TRUE, wrotePrompt |-> fn = "analyzeVideo",
          lastAnalysisPrompt |-> IF fn = "analyzeVideo" THEN << prompt >> ELSE lap]

\* the validation call of improveResult either throws or decodes to one of
\* these payloads
ValidationPayloads ==
    { ValidationPayload(TRUE, << << >> >>),
      NullPayload,
      ValidationPayload(FALSE,
         << << Issue("summary", << >>, "replace", << StringValue("b") >>),
               Issue("keyMoments", << 0 >>, "replace",
                     << ObjectValue("", " ", "", << >>) >>),
               Issue("customAnswer", << >>, "remove", << >>) >> >>),
      ValidationPayload(FALSE,
         << << Issue("customAnswer", << >>, "add",
                     << ObjectValue("b", "", "", << >>) >>) >> >>),
      ValidationPayload(FALSE,
         << << [field |-> "summary", index |-> << >>, hasCorrection |-> FALSE,
                action |-> "", value |-> << >>] >> >>) }

\* ================================================================ state
VARIABLES
    app,                \* React state and refs of App
    rq,                 \* per handleSummarize call: its locals and position
    lastAnalysisPrompt, \* module variable of the LLM service
    storedKey,          \* the credentials kept in chrome.storage.local
    saveLog,            \* the saveSummary calls issued so far
    ev,                 \* the step taken last (observation only)
    svc,                \* service calls made directly (SpecService)
    parse,              \* a parseJsonContent call (SpecParse)
    fix,                \* a call of the correction functions (SpecFix)
    cache,              \* the summary store and its last operation (SpecCache)
    video,              \* the effect that follows the current video (SpecVideo)
    prompt,             \* the pending prompt of a chat service (SpecPrompt)
    tabs                \* the tabs the background script follows (SpecTabs)

vars == << app, rq, lastAnalysisPrompt, storedKey, saveLog, ev, svc, parse, fix,
           cache, video, prompt, tabs >>

\* transcript lengths the content script may return
TranscriptLengths == {0, 49, 50}

NoSub == [st |-> "none", attempt |-> 0, val |-> << >>]

IdleRequest ==
    [pc |-> "idle", userQuery |-> FALSE, videoUrl |-> "v1", credentials |-> << >>,
     sub |-> [op \in Ops |-> NoSub], initialResult |-> << >>,
     originalPrompt |-> << >>, err |-> << >>]

InitApp ==
    [status |-> "IDLE", result |-> << >>, error |-> << >>, errorDetails |-> << >>,
     showErrorModal |-> FALSE, isImproving |-> FALSE, isFromCache |-> FALSE,
     hasCaptions |-> << >>, transcriptLength |-> 0, retryAttempt |-> 0,
     canManualRetry |-> FALSE, userQuery |-> FALSE, credentials |-> << "key" >>,
     currentVideoUrl |-> "v1", manualRetryTimer |-> << >>,
     activeRequestToken |-> << >>, cancelled |-> [r \in Requests |-> FALSE]]

\* ev observes the steps in which a wrapper gives up, a transcript arrives,
\* improveResult settles or handleSummarize returns; after any other step it
\* is NoEvent.
NoEvent ==
    [kind |-> "", r |-> 0, op |-> "", attempt |-> 0, err |-> NoErr, len |-> 0,
     validation |-> "", ret |-> ""]

\* a direct call of the service: its position and what its prefix did
IdleCall ==
    [pc |-> "idle", fn |-> "", credentials |-> << >>, err |-> NoErr,
     promptBuilt |-> FALSE, llm |-> FALSE, invoked |-> FALSE, wrotePrompt |-> FALSE]

InitSvc == [c \in 1..MaxCalls |-> IdleCall]

\* no parseJsonContent call made yet
NoParse == [pc |-> "idle", raw |-> << >>, threw |-> FALSE, value |-> ""]

\* a result without content
EmptyResult == [src |-> 0, summary |-> "", keyMoments |-> << >>, customAnswer |-> << >>]

\* no correction function called yet
NoFix ==
    [pc |-> "idle", fn |-> "", result |-> EmptyResult, isArray |-> TRUE,
     validation |-> NullPayload, threw |-> FALSE, applied |-> FALSE,
     out |-> EmptyResult, order |-> << >>, argResult |-> EmptyResult,
     argIssues |-> << >>]

\* stored summaries are keyed by the id of the video
VideoIds == {"v1", "v2"}

\* the outcome of a cache operation: settled resolved or rejected, with the
\* entry (getSummary) or entries (getAllSummaries) it resolved to
CacheOutcome(op, id, outcome, found, all) ==
    [op |-> op, id |-> id, outcome |-> outcome, found |-> found, all |-> all]

\* An empty object store, dbInstance null, the clock at 0.  store maps a video
\* id to the entry stored under it, << >> for none; setBack records that the
\* system clock was set to an earlier time.
InitCache ==
    [store |-> [id \in VideoIds |-> << >>], db |-> FALSE, now |-> 0,
     setBack |-> FALSE, last |-> CacheOutcome("", "", "", << >>, {})]

\* The effect of the current video after its first run has settled: no load
\* and no caption check pending.  changes counts the changes of video; stale
\* holds the requests that had their transcript when the video changed.
InitVideo ==
    [changes |-> 0, load |-> FALSE, check |-> FALSE, loadingFromCache |-> FALSE,
     checkingCaptions |-> FALSE, stale |-> {}]

\* prompts handed to storePendingPromptForService
MaxPrompts == 2

\* the content-script instances of one chat service: one per tab of its site
Instances == {1, 2}

\* a content script that has not been loaded into its page yet
UnloadedInstance == [pc |-> "unloaded", pendingPrompt |-> << >>]

\* Nothing stored under the key of the service, no content script loaded.
\* count numbers the prompts; injected holds << instance, prompt >> for every
\* prompt an instance has put into its chat.
InitPrompt ==
    [stored |-> << >>, count |-> 0,
     inst |-> [i \in Instances |-> UnloadedInstance], injected |-> {}]

\* the tabs of the browser
Tabs == {1, 2}

\* caption checks of one tab that are scheduled or running at a time
MaxChecks == 1

\* Map.prototype.set and Map.prototype.delete
MapSet(m, k, v) == [x \in DOMAIN m \cup {k} |-> IF x = k THEN v ELSE m[x]]
MapDelete(m, k) == [x \in DOMAIN m \ {k} |-> m[x]]

\* an empty Map
EmptyMap == [x \in {} |-> << >>]

\* The background script after its start: every tab open, no state kept,
\* the default icon everywhere, no caption check scheduled or running.
InitTabs ==
    [open |-> Tabs, tabCaptionState |-> EmptyMap,
     icon |-> [t \in Tabs |-> "default"],
     scheduled |-> [t \in Tabs |-> 0], running |-> [t \in Tabs |-> 0]]

Init ==
    /\ app = InitApp
    /\ rq = [r \in Requests |-> IdleRequest]
    /\ lastAnalysisPrompt = << >>
    /\ storedKey = << "key" >>
    /\ saveLog = << >>
    /\ ev = NoEvent
    /\ svc = InitSvc
    /\ parse = NoParse
    /\ fix = NoFix
    /\ cache = InitCache
    /\ video = InitVideo
    /\ prompt = InitPrompt
    /\ tabs = InitTabs

\* ------------------------------------------------------- helpers of App
\* handleLanguageAwareError
HandleLanguageAwareError(a, message, details) ==
    [a EXCEPT !.status = "ERROR", !.error = << message >>,
              !.errorDetails = << details >>, !.showErrorModal = TRUE]

\* cancelActiveRequest
CancelActiveRequest(a) ==
    IF a.activeRequestToken # << >>
    THEN [a EXCEPT !.cancelled[a.activeRequestToken[1]] = TRUE]
    ELSE a

\* clearManualRetryTimer
ClearManualRetryTimer(a) ==
    [a EXCEPT !.manualRetryTimer = << >>, !.canManualRetry = FALSE]

\* scheduleManualRetryTimer(token)
ScheduleManualRetryTimer(a, r) ==
    [ClearManualRetryTimer(a) EXCEPT !.manualRetryTimer = << r >>]

\* the token never read
RequestTokenNeverCancelled(a, r) == FALSE

\* requestToken.cancelled, read by request r
RequestTokenCancelled(a, r) == a.cancelled[r]

\* formattedDetails: error name, message (and stack)
FormattedDetails(e) == [name |-> e.name, message |-> e.msg]

\* extractVideoId(currentVideoUrl) of the watch URLs
ExtractVideoId(url) == << url >>

\* A world is what one step of request r reads and writes.
World(r) ==
    [app |-> app, me |-> rq[r], lastAnalysisPrompt |-> lastAnalysisPrompt,
     saveLog |-> saveLog, r |-> r, ev |-> NoEvent]

\* the step of request r leaves the world w
Commit(w) ==
    /\ app' = w.app
    /\ rq' = [rq EXCEPT ![w.r] = w.me]
    /\ lastAnalysisPrompt' = w.lastAnalysisPrompt
    /\ saveLog' = w.saveLog
    /\ ev' = w.ev
    /\ UNCHANGED << storedKey, svc, parse, fix, cache, video, prompt, tabs >>

\* a wrapper whose promise nobody awaits any more keeps only its position
Detached(s) == IF s.st = "run" THEN [s EXCEPT !.val = << >>]
               ELSE IF s.st = "none" THEN s
               ELSE [NoSub EXCEPT !.st = "end"]

\* handleSummarize has returned: its locals are gone, its wrappers may run on
Returned(me) ==
    [IdleRequest EXCEPT !.pc = "done", !.credentials = me.credentials,
                        !.sub = [op \in Ops |-> Detached(me.sub[op])]]

Finish(w, ret) == [w EXCEPT !.me = Returned(w.me), !.ev.ret = ret, !.ev.r = w.r]

\* the catch block of handleSummarize up to its first await
OuterCatch(w, e) ==
    LET w0 == [w EXCEPT !.ev.err = e, !.ev.r = w.r] IN
    IF RequestTokenCancelled(w.app, w.r)
    THEN Finish([w0 EXCEPT !.app = ClearManualRetryTimer(w.app)], "cancelled")
    ELSE LET a1 == [w.app EXCEPT !.isImproving = FALSE, !.retryAttempt = 0]
             a2 == ClearManualRetryTimer(a1)
         IN  IF IsAuthErr(e)
             THEN [w0 EXCEPT !.app = a2, !.me.pc = "clearKey", !.me.err = << e >>]
             ELSE Finish([w0 EXCEPT
                            !.app = HandleLanguageAwareError(a2, ErrorMessage(e),
                                                             FormattedDetails(e))],
                         "error")

\* ------------------------------------------- withTimeoutAndRetry attempts
\* operation() of attempt k: the synchronous prefix of analyzeVideo or
\* answerUserQuestion (ensureCredentials, prompt, createLLM, lastAnalysisPrompt)
StartAttempt(w, op, k) ==
    LET entry == ServiceEntry(IF op = "summary" THEN "analyzeVideo"
                              ELSE "answerUserQuestion",
                              w.me.credentials, w.r, w.lastAnalysisPrompt)
    IN  [w EXCEPT !.me.sub[op] = [NoSub EXCEPT !.st = "run", !.attempt = k],
                  !.lastAnalysisPrompt = entry.lastAnalysisPrompt]

\* the operations handleSummarize wraps for a request
NeededOps(me) == IF me.userQuery THEN Ops ELSE {"summary"}

\* lines 1118-1165: the wrappers are created and their first attempts started
StartGeneration(w) ==
    LET w1 == [w EXCEPT !.me.pc = "gen", !.app.retryAttempt = 0]
        w2 == IF w.me.userQuery THEN StartAttempt(w1, "answer", 1) ELSE w1
    IN  StartAttempt(w2, "summary", 1)

\* only the empty transcript refused
AfterExtractionNoMinimum(w, len) ==
    LET w0 == [w EXCEPT !.ev.kind = "extracted", !.ev.r = w.r, !.ev.len = len] IN
    IF len = 0
    THEN OuterCatch(w0, TranscriptShortErr)
    ELSE StartGeneration([w0 EXCEPT !.app.transcriptLength = len])

\* lines 1108-1116 after the transcript text is known
AfterExtraction(w, len) ==
    LET w0 == [w EXCEPT !.ev.kind = "extracted", !.ev.r = w.r, !.ev.len = len] IN
    IF len = 0 \/ len < TRANSCRIPT_MIN_LENGTH
    THEN OuterCatch(w0, TranscriptShortErr)
    ELSE StartGeneration([w0 EXCEPT !.app.transcriptLength = len])

\* saveSummary(videoId, result, currentVideoUrl, language, trimmedQuery) is
\* called when extractVideoId gives an id
SaveSummaryCall(w, res) ==
    IF ExtractVideoId(w.me.videoUrl) # << >>
    THEN [w EXCEPT !.saveLog = Append(@, [req |-> w.r,
                                          videoId |-> ExtractVideoId(w.me.videoUrl)[1],
                                          result |-> res,
                                          userQuery |-> w.me.userQuery])]
    ELSE w

\* the preliminary result written to the cache as soon as it is shown
AfterGenerationSavesPreliminary(w) ==
    LET a0 == [w.app EXCEPT !.retryAttempt = 0]
        w0 == [w EXCEPT !.ev.kind = "generated", !.ev.r = w.r]
    IN
    IF RequestTokenCancelled(a0, w.r)
    THEN Finish([w0 EXCEPT !.app = ClearManualRetryTimer(a0)], "cancelled")
    ELSE LET initialResult ==
                 InitialResult(w.r, w.me.userQuery,
                               IF w.me.userQuery THEN w.me.sub["answer"].val[1]
                               ELSE << >>,
                               w.me.sub["summary"].val[1])
             a1 == [a0 EXCEPT !.result = << initialResult >>, !.status = "SUCCESS"]
             a2 == [ClearManualRetryTimer(a1) EXCEPT !.isImproving = TRUE]
         IN  SaveSummaryCall(
                [w0 EXCEPT !.app = a2, !.me.pc = "improve",
                           !.me.sub = [op \in Ops |-> Detached(w.me.sub[op])],
                           !.me.initialResult = << initialResult >>,
                           !.me.originalPrompt = w.lastAnalysisPrompt],
                initialResult)

\* lines 1167-1189: generation succeeded; the preliminary result is shown and
\* improveResult is called (its synchronous prefix reads lastAnalysisPrompt)
AfterGeneration(w) ==
    LET a0 == [w.app EXCEPT !.retryAttempt = 0]
        w0 == [w EXCEPT !.ev.kind = "generated", !.ev.r = w.r]
    IN
    IF RequestTokenCancelled(a0, w.r)
    THEN Finish([w0 EXCEPT !.app = ClearManualRetryTimer(a0)], "cancelled")
    ELSE LET initialResult ==
                 InitialResult(w.r, w.me.userQuery,
                               IF w.me.userQuery THEN w.me.sub["answer"].val[1]
                               ELSE << >>,
                               w.me.sub["summary"].val[1])
             a1 == [a0 EXCEPT !.result = << initialResult >>, !.status = "SUCCESS"]
             a2 == [ClearManualRetryTimer(a1) EXCEPT !.isImproving = TRUE]
         IN  [w0 EXCEPT !.app = a2, !.me.pc = "improve",
                       !.me.sub = [op \in Ops |-> Detached(w.me.sub[op])],
                       !.me.initialResult = << initialResult >>,
                       !.me.originalPrompt = w.lastAnalysisPrompt]

\* an attempt of a wrapper fulfils with val
AttemptFulfilled(w, op, val) ==
    LET w1 == [w EXCEPT !.me.sub[op].st = "ok", !.me.sub[op].val = << val >>] IN
    IF w.me.pc = "gen"
    THEN IF \A o \in NeededOps(w.me) : w1.me.sub[o].st = "ok"
         THEN AfterGeneration(w1)
         ELSE w1
    ELSE [w EXCEPT !.me.sub[op] = Detached(w1.me.sub[op])]

\* An attempt of a wrapper rejects with e: the catch of withTimeoutAndRetry.
\* A retry calls onRetry, waits 500 ms and starts the next attempt; no handler
\* of the wrapper runs in between, and the step folds the three together.
AttemptRejected(w, op, e) ==
    LET attempt == w.me.sub[op].attempt IN
    IF CanRetry(attempt, e)
    THEN StartAttempt([w EXCEPT !.app.retryAttempt = attempt], op, attempt + 1)
    ELSE LET w1 == [w EXCEPT !.me.sub[op].st = "rej", !.ev.kind = "rejected",
                             !.ev.r = w.r, !.ev.op = op, !.ev.err = e,
                             !.ev.attempt = attempt]
         IN  IF w.me.pc = "gen" THEN OuterCatch(w1, e)
             ELSE [w EXCEPT !.me.sub[op] = Detached(w1.me.sub[op])]

\* a rejection of improveResult handed to the outer catch
AfterImprovePropagates(w, threw, improved) ==
    IF threw
    THEN OuterCatch(w, ShapeErr)
    ELSE Finish(SaveSummaryCall([w EXCEPT !.app.result = << improved >>,
                                          !.app.isImproving = FALSE], improved),
                "improved")

\* lines 1190-1224: improveResult settled, fulfilled with improved or rejected
AfterImprove(w, threw, improved) ==
    IF RequestTokenCancelled(w.app, w.r)
    THEN Finish([w EXCEPT !.app.isImproving = FALSE], "cancelled")
    ELSE LET w1 == IF threw
                   THEN SaveSummaryCall(w, w.me.initialResult[1])
                   ELSE SaveSummaryCall([w EXCEPT !.app.result = << improved >>],
                                        improved)
         IN  Finish([w1 EXCEPT !.app.isImproving = FALSE],
                    IF threw THEN "kept" ELSE "improved")

\* ============================================================== actions
\* the request a new handleSummarize call becomes
NextRequest == Cardinality({r \in Requests : rq[r].pc # "idle"}) + 1

\* handleSummarize, lines 1022-1055: up to the await of the caption check
HandleSummarizeEntry(a, q) ==
    IF a.credentials = << >> \/ a.credentials[1] = ""
    THEN /\ app' = HandleLanguageAwareError(a, "errors.apiKeyMissing",
                       [name |-> "", message |-> "API Key is not configured"])
         /\ ev' = [NoEvent EXCEPT !.ret = "noKey"]
         /\ UNCHANGED << rq, lastAnalysisPrompt, storedKey, saveLog, svc, parse, fix, cache, video, prompt, tabs >>
    ELSE LET r == NextRequest
             a1 == CancelActiveRequest(a)
             a2 == [a1 EXCEPT !.activeRequestToken = << r >>,
                              !.canManualRetry = FALSE]
             a3 == ScheduleManualRetryTimer(a2, r)
             a4 == [a3 EXCEPT !.status = "LOADING", !.error = << >>,
                              !.result = << >>, !.isFromCache = FALSE,
                              !.isImproving = FALSE, !.userQuery = q]
         IN  /\ r \in Requests
             /\ app' = a4
             /\ rq' = [rq EXCEPT ![r] = [@ EXCEPT !.pc = "caption",
                                                    !.userQuery = q,
                                                    !.videoUrl = a.currentVideoUrl,
                                                    !.credentials = a.credentials]]
             /\ ev' = NoEvent
             /\ UNCHANGED << lastAnalysisPrompt, storedKey, saveLog, svc, parse, fix, cache, video, prompt, tabs >>

\* The user presses Summarize, the manual-retry button or Regenerate; the
\* question box is disabled while status is LOADING.
HandleSummarize ==
    /\ ~app.showErrorModal
    /\ app.credentials # << >>
    /\ app.status # "LOADING" \/ app.canManualRetry
    /\ \E q \in BOOLEAN :
          /\ app.status = "LOADING" => q = app.userQuery
          /\ HandleSummarizeEntry(app, q)

\* handleRetryFromError (a panel without credentials is in offline mode)
HandleRetryFromError ==
    /\ app.showErrorModal
    /\ HandleSummarizeEntry([app EXCEPT !.showErrorModal = FALSE, !.error = << >>,
                                        !.errorDetails = << >>],
                            app.userQuery)

\* handleCloseErrorModal
HandleCloseErrorModal ==
    /\ app.showErrorModal
    /\ app' = [app EXCEPT !.showErrorModal = FALSE]
    /\ ev' = NoEvent
    /\ UNCHANGED << rq, lastAnalysisPrompt, storedKey, saveLog, svc, parse, fix, cache, video, prompt, tabs >>

\* the 20 s timer of scheduleManualRetryTimer fires
ManualRetryTimerFires ==
    /\ app.manualRetryTimer # << >>
    /\ app' = [app EXCEPT !.manualRetryTimer = << >>,
                          !.canManualRetry =
                              IF app.cancelled[app.manualRetryTimer[1]] THEN @ ELSE TRUE]
    /\ ev' = NoEvent
    /\ UNCHANGED << rq, lastAnalysisPrompt, storedKey, saveLog, svc, parse, fix, cache, video, prompt, tabs >>

\* the CHECK_CAPTIONS reply of handleSummarize arrives
CaptionCheckResolves(r) ==
    /\ rq[r].pc = "caption"
    /\ \E reply \in {"failed", "captions", "noCaptions"} :
          LET w == World(r)
              a1 == IF reply = "failed" THEN w.app
                    ELSE [w.app EXCEPT !.hasCaptions = << reply = "captions" >>]
          IN  Commit([w EXCEPT !.app = a1, !.me.pc = "extract"])

\* the EXTRACT_TRANSCRIPT reply arrives
ExtractResolves(r) ==
    /\ rq[r].pc = "extract"
    /\ LET w == World(r) IN
       \/ \E len \in TranscriptLengths :
             Commit(AfterExtraction([w EXCEPT !.app.hasCaptions = << TRUE >>], len))
       \/ Commit([w EXCEPT !.app.hasCaptions = << FALSE >>, !.me.pc = "reinject"])
       \/ Commit([w EXCEPT !.me.pc = "reinject"])

\* reinjectAndRetry('EXTRACT_TRANSCRIPT') settles
ReinjectResolves(r) ==
    /\ rq[r].pc = "reinject"
    /\ LET w == World(r) IN
       \/ \E len \in TranscriptLengths :
             Commit(AfterExtraction([w EXCEPT !.app.hasCaptions = << TRUE >>], len))
       \/ Commit(OuterCatch([w EXCEPT !.app.hasCaptions = << FALSE >>],
                            CaptionsMissingErr))
       \/ Commit(OuterCatch(w, CommunicationErr))

\* the provider answers an attempt with a decodable response
AttemptResolves(r, op) ==
    /\ rq[r].sub[op].st = "run"
    /\ EnsureCredentials(rq[r].credentials)
    /\ LET w == World(r) IN
       \/ /\ op = "summary"
          /\ \E response \in AnalysisResponses :
                Commit(AttemptFulfilled(w, op, AnalysisOf(response)))
       \/ /\ op = "answer"
          /\ \E response \in AnswerResponses :
                Commit(AttemptFulfilled(w, op, SanitizeUserAnswer(response)))

\* the running attempt of wrapper op of request r rejects with e
WrapperRejects(r, op, e) ==
    /\ rq[r].sub[op].st = "run"
    /\ Commit(AttemptRejected(World(r), op, e))

\* an attempt fails: provider error, undecodable response, or withTimeout's
\* timer fires first
AttemptRejects(r, op) ==
    \E e \in ProviderErrors \cup {ParseErr, TimeoutErr, CredentialsErr} :
        /\ e = CredentialsErr <=> ~EnsureCredentials(rq[r].credentials)
        /\ WrapperRejects(r, op, e)

\* improveResult settles: the validation call threw or decoded to a payload
ImproveSettles(r) ==
    /\ rq[r].pc = "improve"
    /\ LET w == [World(r) EXCEPT !.ev.kind = "improve", !.ev.r = r]
           initialResult == w.me.initialResult[1]
       IN
       IF ~EnsureCredentials(w.me.credentials)
       THEN Commit(AfterImprove([w EXCEPT !.ev.validation = "credentials"],
                                TRUE, initialResult))
       ELSE
       \/ Commit(AfterImprove([w EXCEPT !.ev.validation = "threw"], FALSE,
                              ValidateAndFixResult(initialResult, ValidationOnFailure)))
       \/ \E validation \in ValidationPayloads :
             IF ValidateAndFixThrows(validation)
             THEN Commit(AfterImprove(
                     [w EXCEPT !.ev.validation =
                          IF validation.isNull \/ validation.issues = << >>
                          THEN "badShape" ELSE "correctionsThrew"],
                     TRUE, initialResult))
             ELSE Commit(AfterImprove(
                     [w EXCEPT !.ev.validation =
                          IF validation.isValid THEN "valid" ELSE "issues"],
                     FALSE, ValidateAndFixResult(initialResult, validation)))

\* await clearUserApiKey() settles; then lines 1269-1271
ClearUserApiKeySettles(r) ==
    /\ rq[r].pc = "clearKey"
    /\ \/ /\ storedKey' = << >>
          /\ app' = HandleLanguageAwareError(
                       [app EXCEPT !.credentials = << >>], "errors.apiKeyInvalid",
                       FormattedDetails(rq[r].err[1]))
          /\ ev' = [NoEvent EXCEPT !.kind = "clearKey", !.r = r,
                                   !.ret = "keyCleared", !.err = rq[r].err[1]]
       \/ /\ ev' = [NoEvent EXCEPT !.kind = "clearKey", !.r = r,
                                   !.ret = "clearKeyRejected", !.err = rq[r].err[1]]
          /\ UNCHANGED << app, storedKey >>
    /\ rq' = [rq EXCEPT ![r] = Returned(rq[r])]
    /\ UNCHANGED << lastAnalysisPrompt, saveLog, svc, parse, fix, cache, video, prompt, tabs >>

Next ==
    \/ HandleSummarize
    \/ HandleRetryFromError
    \/ HandleCloseErrorModal
    \/ ManualRetryTimerFires
    \/ \E r \in Requests : CaptionCheckResolves(r)
    \/ \E r \in Requests : ExtractResolves(r)
    \/ \E r \in Requests : ReinjectResolves(r)
    \/ \E r \in Requests, op \in Ops : AttemptResolves(r, op)
    \/ \E r \in Requests, op \in Ops : AttemptRejects(r, op)
    \/ \E r \in Requests : ImproveSettles(r)
    \/ \E r \in Requests : ClearUserApiKeySettles(r)

Spec == Init /\ [][Next]_vars

\* withTimeout's setTimeout callback of the running attempt of wrapper op
TimeoutFires(r, op) ==
    /\ EnsureCredentials(rq[r].credentials)
    /\ WrapperRejects(r, op, TimeoutErr)

\* The timers of the code fire: the manual-retry timer, and the timeout of
\* every attempt that has not settled before it.  Nothing is assumed about
\* the provider, the content script or the storage answering.
SpecTimers ==
    /\ Init
    /\ [][Next]_vars
    /\ WF_vars(ManualRetryTimerFires)
    /\ \A r \in Requests, op \in Ops : WF_vars(TimeoutFires(r, op))

\* ------------------------------------------- the service called directly
\* credentials a caller may pass
CredentialInputs == {<< >>, << "" >>, << " " >>, << "key" >>, << " key " >>}

\* call c of answerUserQuestion, analyzeVideo or improveResult runs up to its
\* first await
ServiceCall(c) ==
    /\ svc[c].pc = "idle"
    /\ c > 1 => svc[c - 1].pc # "idle"
    /\ \E fn \in ServiceFns, credentials \in CredentialInputs :
          LET entry == ServiceEntry(fn, credentials, c, lastAnalysisPrompt) IN
          /\ svc' = [svc EXCEPT ![c] =
                        [pc |-> IF entry.threw THEN "rejected" ELSE "invoked",
                         fn |-> fn, credentials |-> credentials, err |-> entry.err,
                         promptBuilt |-> entry.promptBuilt, llm |-> entry.llm,
                         invoked |-> entry.invoked,
                         wrotePrompt |-> entry.wrotePrompt]]
          /\ lastAnalysisPrompt' = entry.lastAnalysisPrompt
    /\ UNCHANGED << app, rq, storedKey, saveLog, ev, parse, fix, cache, video, prompt, tabs >>

\* the model invocation of call c settles
ServiceSettles(c) ==
    /\ svc[c].pc = "invoked"
    /\ \/ svc' = [svc EXCEPT ![c].pc = "fulfilled"]
       \/ \E e \in IF svc[c].fn = "improveResult" THEN {ShapeErr}
                    ELSE ProviderErrors \cup {ParseErr} :
             svc' = [svc EXCEPT ![c].pc = "rejected", ![c].err = e]
    /\ UNCHANGED << app, rq, lastAnalysisPrompt, storedKey, saveLog, ev, parse, fix,
                    cache, video, prompt, tabs >>

NextService ==
    \/ \E c \in 1..MaxCalls : ServiceCall(c)
    \/ \E c \in 1..MaxCalls : ServiceSettles(c)

SpecService == Init /\ [][NextService]_vars

\* ------------------------------------------------------ parseJsonContent
\* longest raw text, in tokens
MaxRawLen == 5

\* A raw model output is a sequence of tokens: F a ``` fence, J the word json,
\* L an opening brace, R a closing brace, N a number literal, X other text,
\* W white space.
Tokens == {"F", "J", "L", "R", "N", "X", "W"}

RECURSIVE RawTextsUpTo(_)
\* the raw texts of at most n tokens
RawTextsUpTo(n) ==
    IF n = 0 THEN {<< >>}
    ELSE LET shorter == RawTextsUpTo(n - 1)
         IN  shorter \cup {Append(t, c) : t \in {u \in shorter : Len(u) = n - 1},
                                          c \in Tokens}

RawTexts == RawTextsUpTo(MaxRawLen)

RECURSIVE TrimText(_)
\* String.prototype.trim on a token sequence
TrimText(t) ==
    IF t = << >> THEN t
    ELSE IF Head(t) = "W" THEN TrimText(Tail(t))
    ELSE IF t[Len(t)] = "W" THEN TrimText(SubSeq(t, 1, Len(t) - 1))
    ELSE t

\* JSON.parse accepts the text: a number, or an empty object, with white space
\* around and inside
JSONValid(t) ==
    LET u == TrimText(t) IN
    \/ u = << "N" >>
    \/ /\ Len(u) >= 2
       /\ u[1] = "L"
       /\ u[Len(u)] = "R"
       /\ \A i \in 2..(Len(u) - 1) : u[i] = "W"

\* the value JSON.parse returns for a valid text
JSONValue(t) == IF TrimText(t) = << "N" >> THEN "number" ELSE "object"

\* positions of token c in t
Positions(t, c) == {i \in 1..Len(t) : t[i] = c}

\* smallest and largest element of a non-empty set of positions
MinOf(S) == CHOOSE i \in S : \A j \in S : i <= j

MaxOf(S) == CHOOSE i \in S : \A j \in S : i >= j

\* raw.match(/```json([\s\S]*?)```/i) || raw.match(/```([\s\S]*?)```/i):
\* group 1 of the match, << >> when neither pattern matches
FencedGroup(t) ==
    LET fences == Positions(t, "F")
        tagged == {i \in fences : i + 1 <= Len(t) /\ t[i + 1] = "J"
                                   /\ \E k \in fences : k > i + 1}
        plain == {i \in fences : \E k \in fences : k > i}
    IN  IF tagged # {}
        THEN LET i == MinOf(tagged)
                 k == MinOf({j \in fences : j > i + 1})
             IN  << SubSeq(t, i + 2, k - 1) >>
        ELSE IF plain # {}
        THEN LET i == MinOf(plain)
                 k == MinOf({j \in fences : j > i})
             IN  << SubSeq(t, i + 1, k - 1) >>
        ELSE << >>

\* raw.slice(firstBrace, lastBrace + 1) when both braces exist in that order
BraceSlice(t) ==
    LET opens == Positions(t, "L")
        closes == Positions(t, "R")
    IN  IF opens # {} /\ closes # {} /\ MaxOf(closes) > MinOf(opens)
        THEN << SubSeq(t, MinOf(opens), MaxOf(closes)) >>
        ELSE << >>

\* extractJsonFromText
ExtractJsonFromText(t) ==
    LET fenced == FencedGroup(t) IN
    IF fenced # << >> /\ fenced[1] # << >>
    THEN TrimText(fenced[1])
    ELSE IF BraceSlice(t) # << >> THEN BraceSlice(t)[1]
    ELSE TrimText(t)

\* the outcome of a parse: the decoded value, or the error thrown
Parsed(t) == [threw |-> FALSE, value |-> JSONValue(t)]

ParseThrows == [threw |-> TRUE, value |-> ParseErr.msg]

\* parseJsonContent(raw, context)
ParseJsonContent(raw) ==
    IF JSONValid(raw) THEN Parsed(raw)
    ELSE LET fallback == ExtractJsonFromText(raw) IN
         IF fallback # raw /\ JSONValid(fallback) THEN Parsed(fallback)
         ELSE ParseThrows

\* parseJsonContent is called on a raw text
ParseCall ==
    /\ parse.pc = "idle"
    /\ \E raw \in RawTexts :
          LET out == ParseJsonContent(raw) IN
          parse' = [pc |-> "done", raw |-> raw, threw |-> out.threw,
                    value |-> out.value]
    /\ UNCHANGED << app, rq, lastAnalysisPrompt, storedKey, saveLog, ev, svc, fix,
                    cache, video, prompt, tabs >>

\* the caller drops the outcome
ParseReturn ==
    /\ parse.pc = "done"
    /\ parse' = NoParse
    /\ UNCHANGED << app, rq, lastAnalysisPrompt, storedKey, saveLog, ev, svc, fix,
                    cache, video, prompt, tabs >>

NextParse == ParseCall \/ ParseReturn

SpecParse == Init /\ [][NextParse]_vars

\* ------------------------------------------- the correction functions
\* longest list of issues in a validation payload
MaxIssues == 3

\* three well-formed key moments
Moment1 == [timestamp |-> "01:00", description |-> "a"]

Moment2 == [timestamp |-> "02:00", description |-> "b"]

Moment3 == [timestamp |-> "01:00", description |-> "key"]

\* results handed to improveResult and applyCorrections: a well-formed one and
\* one whose key moments are padded, empty or not strings
FixResults ==
    { [src |-> 1, summary |-> "a", keyMoments |-> << Moment1, Moment2, Moment3 >>,
       customAnswer |-> << [text |-> "a", relatedSegments |-> << >>] >>],
      [src |-> 1, summary |-> "a",
       keyMoments |-> << [timestamp |-> " 01:00 ", description |-> " a "],
                         [timestamp |-> "", description |-> "a"],
                         [timestamp |-> "02:00", description |-> NonString] >>,
       customAnswer |-> << >>] }

\* { field: 'keyMoments', index, correction: { action: 'remove' } }
RemoveMoment(index) == Issue("keyMoments", << index >>, "remove", << >>)

\* the issues a validation payload is made of
FixIssues ==
    { RemoveMoment(0), RemoveMoment(1), RemoveMoment(2),
      Issue("keyMoments", << 1 >>, "replace", << ObjectValue("", " ", "", << >>) >>),
      Issue("keyMoments", << >>, "add", << ObjectValue("", " a ", "", << >>) >>),
      Issue("keyMoments", << >>, "add", << ObjectValue("b", "", " ", << >>) >>),
      Issue("summary", << >>, "replace", << StringValue("b") >>),
      Issue("customAnswer", << >>, "remove", << >>),
      Issue("customAnswer", << >>, "add",
            << ObjectValue("b", "", "", << "01:00 - 02:00" >>) >>),
      Issue("customAnswer", << >>, "replace", << ObjectValue("key", "", "", << >>) >>) }

RECURSIVE IssueListsUpTo(_)
\* the lists of at most n different issues
IssueListsUpTo(n) ==
    IF n = 0 THEN {<< >>}
    ELSE LET shorter == IssueListsUpTo(n - 1)
         IN  shorter \cup
             {Append(l[1], l[2]) :
                 l \in {m \in {u \in shorter : Len(u) = n - 1} \X FixIssues :
                          \A k \in 1..Len(m[1]) : m[1][k] # m[2]}}

IssueLists == IssueListsUpTo(MaxIssues)

\* the payloads validateResult returns to validateAndFixResult
FixValidations ==
    {ValidationPayload(v, << l >>) : v \in BOOLEAN, l \in IssueLists}
    \cup {NullPayload, ValidationPayload(TRUE, << >>), ValidationPayload(FALSE, << >>)}

\* decoded responses analyzeVideo gets
FixResponses ==
    AnalysisResponses
    \cup {[summary |-> NonString, isArray |-> FALSE, keyMoments |-> << >>]}

\* analyzeVideo builds its result from a decoded response
FixAnalyzeVideo ==
    /\ fix.pc = "idle"
    /\ \E response \in FixResponses :
          fix' = [NoFix EXCEPT
                    !.pc = "done", !.fn = "analyzeVideo",
                    !.result = [EmptyResult EXCEPT !.summary = response.summary,
                                                   !.keyMoments = response.keyMoments],
                    !.isArray = response.isArray,
                    !.out = [EmptyResult EXCEPT
                               !.summary = AnalysisOf(response).summary,
                               !.keyMoments = AnalysisOf(response).keyMoments]]
    /\ UNCHANGED << app, rq, lastAnalysisPrompt, storedKey, saveLog, ev, svc, parse,
                    cache, video, prompt, tabs >>

\* improveResult: validateAndFixResult on the payload validateResult returned
FixImproveResult ==
    /\ fix.pc = "idle"
    /\ \E res \in FixResults, validation \in FixValidations :
          IF ValidateAndFixThrows(validation)
          THEN fix' = [NoFix EXCEPT !.pc = "done", !.fn = "improveResult",
                                    !.result = res, !.validation = validation,
                                    !.threw = TRUE]
          ELSE LET fixed == ValidateAndFix(res, validation) IN
               fix' = [NoFix EXCEPT !.pc = "done", !.fn = "improveResult",
                                    !.result = res, !.validation = validation,
                                    !.applied = fixed.applied,
                                    !.out = fixed.result]
    /\ UNCHANGED << app, rq, lastAnalysisPrompt, storedKey, saveLog, ev, svc, parse,
                    cache, video, prompt, tabs >>

\* applyCorrections(result, issues)
FixApplyCorrections ==
    /\ fix.pc = "idle"
    /\ \E res \in FixResults, l \in IssueLists :
          fix' = [NoFix EXCEPT !.pc = "done", !.fn = "applyCorrections",
                               !.result = res,
                               !.validation = ValidationPayload(FALSE, << l >>),
                               !.applied = TRUE,
                               !.out = ApplyCorrections(res, l),
                               !.order = SortIssues(l),
                               !.argResult = ArgumentsAfter(res, l).result,
                               !.argIssues = ArgumentsAfter(res, l).issues]
    /\ UNCHANGED << app, rq, lastAnalysisPrompt, storedKey, saveLog, ev, svc, parse,
                    cache, video, prompt, tabs >>

\* the caller takes the outcome
FixReturn ==
    /\ fix.pc = "done"
    /\ fix' = NoFix
    /\ UNCHANGED << app, rq, lastAnalysisPrompt, storedKey, saveLog, ev, svc, parse,
                    cache, video, prompt, tabs >>

NextFix == FixAnalyzeVideo \/ FixImproveResult \/ FixApplyCorrections \/ FixReturn

SpecFix == Init /\ [][NextFix]_vars

\* ------------------------------------------------------- summaryStorage
\* latest reading of the clock
MaxTime == 2

\* what saveSummary is given besides the id
SummaryPayloads ==
    { [result |-> "summary1", videoUrl |-> "url1", language |-> "en", userQuery |-> ""],
      [result |-> "summary2", videoUrl |-> "url2", language |-> "pt", userQuery |-> "q"] }

\* the entry always stored with createdAt: now
StoredEntryFreshCreation(existing, p, now) ==
    [result |-> p.result, videoUrl |-> p.videoUrl, language |-> p.language,
     userQuery |-> p.userQuery, createdAt |-> now, updatedAt |-> now]

\* the entry saveSummary puts after a successful get
StoredEntry(existing, p, now) ==
    [result |-> p.result, videoUrl |-> p.videoUrl, language |-> p.language,
     userQuery |-> p.userQuery,
     createdAt |-> IF existing # << >> THEN existing[1].createdAt ELSE now,
     updatedAt |-> now]

\* the entries in the store
AllEntries(store) == {store[id][1] : id \in {i \in VideoIds : store[i] # << >>}}

\* openDatabase can fail only when it has to open: no cached dbInstance
OpenOutcomes == IF cache.db THEN {"open"} ELSE {"open", "openFails"}

\* a cache operation settles: its effect on the store and what it reports
Settle(store, opened, outcome) ==
    cache' = [cache EXCEPT !.store = store, !.db = opened, !.last = outcome]

\* saveSummary(videoId, result, videoUrl, language, userQuery)
SaveSummary(id, p) ==
    /\ \E open \in OpenOutcomes, request \in {"ok", "getFails", "putFails"} :
          IF open = "openFails"
          THEN Settle(cache.store, FALSE,
                      CacheOutcome("saveSummary", id, "rejected", << >>, {}))
          ELSE IF request # "ok"
          THEN \* a failed request aborts the transaction: nothing is stored
               Settle(cache.store, TRUE,
                      CacheOutcome("saveSummary", id, "rejected", << >>, {}))
          ELSE Settle([cache.store EXCEPT
                          ![id] = << StoredEntry(cache.store[id], p, cache.now) >>],
                      TRUE, CacheOutcome("saveSummary", id, "resolved", << >>, {}))
    /\ UNCHANGED << app, rq, lastAnalysisPrompt, storedKey, saveLog, ev, svc, parse,
                    fix, video, prompt, tabs >>

\* getSummary(videoId)
GetSummary(id) ==
    /\ \E open \in OpenOutcomes, request \in {"ok", "fails"} :
          IF open = "openFails"
          THEN Settle(cache.store, FALSE,
                      CacheOutcome("getSummary", id, "resolved", << >>, {}))
          ELSE IF request = "fails"
          THEN Settle(cache.store, TRUE,
                      CacheOutcome("getSummary", id, "rejected", << >>, {}))
          ELSE Settle(cache.store, TRUE,
                      CacheOutcome("getSummary", id, "resolved", cache.store[id], {}))
    /\ UNCHANGED << app, rq, lastAnalysisPrompt, storedKey, saveLog, ev, svc, parse,
                    fix, video, prompt, tabs >>

\* deleteSummary(videoId)
DeleteSummary(id) ==
    /\ \E open \in OpenOutcomes, request \in {"ok", "fails"} :
          IF open = "openFails"
          THEN Settle(cache.store, FALSE,
                      CacheOutcome("deleteSummary", id, "rejected", << >>, {}))
          ELSE IF request = "fails"
          THEN Settle(cache.store, TRUE,
                      CacheOutcome("deleteSummary", id, "rejected", << >>, {}))
          ELSE Settle([cache.store EXCEPT ![id] = << >>], TRUE,
                      CacheOutcome("deleteSummary", id, "resolved", << >>, {}))
    /\ UNCHANGED << app, rq, lastAnalysisPrompt, storedKey, saveLog, ev, svc, parse,
                    fix, video, prompt, tabs >>

\* getAllSummaries()
GetAllSummaries ==
    /\ \E open \in OpenOutcomes, request \in {"ok", "fails"} :
          IF open = "openFails"
          THEN Settle(cache.store, FALSE,
                      CacheOutcome("getAllSummaries", "", "resolved", << >>, {}))
          ELSE IF request = "fails"
          THEN Settle(cache.store, TRUE,
                      CacheOutcome("getAllSummaries", "", "rejected", << >>, {}))
          ELSE Settle(cache.store, TRUE,
                      CacheOutcome("getAllSummaries", "", "resolved", << >>,
                                   AllEntries(cache.store)))
    /\ UNCHANGED << app, rq, lastAnalysisPrompt, storedKey, saveLog, ev, svc, parse,
                    fix, video, prompt, tabs >>

\* clearAllSummaries()
ClearAllSummaries ==
    /\ \E open \in OpenOutcomes, request \in {"ok", "fails"} :
          IF open = "openFails"
          THEN Settle(cache.store, FALSE,
                      CacheOutcome("clearAllSummaries", "", "rejected", << >>, {}))
          ELSE IF request = "fails"
          THEN Settle(cache.store, TRUE,
                      CacheOutcome("clearAllSummaries", "", "rejected", << >>, {}))
          ELSE Settle([id \in VideoIds |-> << >>], TRUE,
                      CacheOutcome("clearAllSummaries", "", "resolved", << >>, {}))
    /\ UNCHANGED << app, rq, lastAnalysisPrompt, storedKey, saveLog, ev, svc, parse,
                    fix, video, prompt, tabs >>

\* dbInstance.onclose: the browser closed the database
DbClosed ==
    /\ cache.db
    /\ cache' = [cache EXCEPT !.db = FALSE]
    /\ UNCHANGED << app, rq, lastAnalysisPrompt, storedKey, saveLog, ev, svc, parse,
                    fix, video, prompt, tabs >>

\* time passes: the next Date.now() is later
ClockAdvances ==
    /\ cache.now < MaxTime
    /\ cache' = [cache EXCEPT !.now = @ + 1]
    /\ UNCHANGED << app, rq, lastAnalysisPrompt, storedKey, saveLog, ev, svc, parse,
                    fix, video, prompt, tabs >>

\* the system clock is set to an earlier time: Date.now() is the wall clock
ClockSetBack ==
    /\ \E t \in 0..(cache.now - 1) :
          cache' = [cache EXCEPT !.now = t, !.setBack = TRUE]
    /\ UNCHANGED << app, rq, lastAnalysisPrompt, storedKey, saveLog, ev, svc, parse,
                    fix, video, prompt, tabs >>

NextCache ==
    \/ \E id \in VideoIds, p \in SummaryPayloads : SaveSummary(id, p)
    \/ \E id \in VideoIds : GetSummary(id)
    \/ \E id \in VideoIds : DeleteSummary(id)
    \/ GetAllSummaries
    \/ ClearAllSummaries
    \/ DbClosed
    \/ ClockAdvances
    \/ ClockSetBack

SpecCache == Init /\ [][NextCache]_vars

\* ------------------------------------------- the current-video effect
\* changes of the current video
MaxVideoChanges == 1

\* the video the tab navigates to
OtherVideo(url) == IF url = "v1" THEN "v2" ELSE "v1"

\* a result loaded from the cache; src 0: built by no request of this session
CachedResult == [src |-> 0, summary |-> "b", keyMoments |-> << >>, customAnswer |-> << >>]

\* what getSummary resolves to: null, or a stored summary
CachedSummaries ==
    { << >>,
      << [result |-> CachedResult, userQuery |-> FALSE] >>,
      << [result |-> [CachedResult EXCEPT
                        !.customAnswer = << [text |-> "a", relatedSegments |-> << >>] >>],
          userQuery |-> TRUE] >> }

\* the requests that hold a transcript: generating or improving
HoldTranscript == {r \in Requests : rq[r].pc \in {"gen", "improve"}}

\* The tab shows another video: checkCurrentTab sets currentVideoUrl and
\* effect 4 runs again.  The cleanup of the previous run makes its pending
\* callbacks return at once, the new run resets the view, starts getSummary
\* and sends CHECK_CAPTIONS.
VideoChange ==
    /\ video.changes < MaxVideoChanges
    /\ app' = [app EXCEPT !.currentVideoUrl = OtherVideo(@),
                          !.result = << >>, !.error = << >>, !.status = "IDLE",
                          !.isFromCache = FALSE, !.hasCaptions = << >>]
    /\ video' = [changes |-> video.changes + 1, load |-> TRUE, check |-> TRUE,
                 loadingFromCache |-> TRUE, checkingCaptions |-> TRUE,
                 stale |-> video.stale \cup HoldTranscript]
    /\ ev' = NoEvent
    /\ UNCHANGED << rq, lastAnalysisPrompt, storedKey, saveLog, svc, parse, fix, cache, prompt, tabs >>

\* getSummary(videoId) of the running effect settles: .then, .catch, .finally
CachedLoadResolves ==
    /\ video.load
    /\ \/ \E cached \in CachedSummaries :
             app' = IF cached # << >>
                    THEN [app EXCEPT !.result = << cached[1].result >>,
                                     !.userQuery = cached[1].userQuery,
                                     !.status = "SUCCESS", !.isFromCache = TRUE]
                    ELSE app
       \/ app' = app
    /\ video' = [video EXCEPT !.load = FALSE, !.loadingFromCache = FALSE]
    /\ ev' = NoEvent
    /\ UNCHANGED << rq, lastAnalysisPrompt, storedKey, saveLog, svc, parse, fix, cache, prompt, tabs >>

\* the CHECK_CAPTIONS reply of the running effect arrives
EffectCaptionCheckResolves ==
    /\ video.check
    /\ \E hasCaptions \in {<< >>, << TRUE >>, << FALSE >>} :
          app' = [app EXCEPT !.hasCaptions = hasCaptions]
    /\ video' = [video EXCEPT !.check = FALSE, !.checkingCaptions = FALSE]
    /\ ev' = NoEvent
    /\ UNCHANGED << rq, lastAnalysisPrompt, storedKey, saveLog, svc, parse, fix, cache, prompt, tabs >>

\* no second request is started
OneRequest == \A r \in Requests \ {1} : rq'[r].pc = "idle"

\* the first Summarize of the session
SummarizeOnce == HandleSummarize /\ OneRequest

\* Retry in the error modal when it starts no request: no credentials
RetryWithoutRequest == HandleRetryFromError /\ OneRequest

\* One request, and the video the tab shows changing under it
NextVideo ==
    \/ VideoChange
    \/ CachedLoadResolves
    \/ EffectCaptionCheckResolves
    \/ SummarizeOnce
    \/ RetryWithoutRequest
    \/ HandleCloseErrorModal
    \/ ManualRetryTimerFires
    \/ \E r \in Requests : CaptionCheckResolves(r)
    \/ \E r \in Requests : ExtractResolves(r)
    \/ \E r \in Requests : ReinjectResolves(r)
    \/ \E r \in Requests, op \in Ops : AttemptResolves(r, op)
    \/ \E r \in Requests, op \in Ops : AttemptRejects(r, op)
    \/ \E r \in Requests : ImproveSettles(r)
    \/ \E r \in Requests : ClearUserApiKeySettles(r)

SpecVideo == Init /\ [][NextVideo]_vars

\* ------------------------------------- the pending prompt of a chat service
\* storePendingPromptForService(prompt, service): chrome.storage.local.set
\* under the key of the service; the call rejects when the write does
StorePendingPromptForService ==
    /\ prompt.count < MaxPrompts
    /\ \/ prompt' = [prompt EXCEPT !.count = @ + 1, !.stored = << prompt.count + 1 >>]
       \/ prompt' = [prompt EXCEPT !.count = @ + 1]
    /\ UNCHANGED << app, rq, lastAnalysisPrompt, storedKey, saveLog, ev, svc, parse,
                    fix, cache, video, tabs >>

\* the content script is loaded into a page of the service: checkPendingPrompt
\* runs and issues chrome.storage.local.get
ContentScriptLoads(i) ==
    /\ prompt.inst[i].pc = "unloaded"
    /\ prompt' = [prompt EXCEPT !.inst[i].pc = "get"]
    /\ UNCHANGED << app, rq, lastAnalysisPrompt, storedKey, saveLog, ev, svc, parse,
                    fix, cache, video, tabs >>

\* chrome.storage.local.get settles: the stored value becomes pendingPrompt;
\* nothing stored or a rejection end checkPendingPrompt
StorageGetSettles(i) ==
    /\ prompt.inst[i].pc = "get"
    /\ \/ prompt' = [prompt EXCEPT
                       !.inst[i] = [pc |-> IF prompt.stored # << >> THEN "remove" ELSE "done",
                                    pendingPrompt |-> prompt.stored]]
       \/ prompt' = [prompt EXCEPT !.inst[i].pc = "done"]
    /\ UNCHANGED << app, rq, lastAnalysisPrompt, storedKey, saveLog, ev, svc, parse,
                    fix, cache, video, tabs >>

\* chrome.storage.local.remove settles: the key is cleared and the 2000 ms
\* wait starts; a rejection is caught and ends checkPendingPrompt
StorageRemoveSettles(i) ==
    /\ prompt.inst[i].pc = "remove"
    /\ \/ prompt' = [prompt EXCEPT !.stored = << >>, !.inst[i].pc = "wait"]
       \/ prompt' = [prompt EXCEPT !.inst[i].pc = "done"]
    /\ UNCHANGED << app, rq, lastAnalysisPrompt, storedKey, saveLog, ev, svc, parse,
                    fix, cache, video, tabs >>

\* the wait is over and injectPrompt(pendingPrompt) settles: success when the
\* text was set in the chat input, an alert otherwise
InjectPromptSettles(i) ==
    /\ prompt.inst[i].pc = "wait"
    /\ \E success \in BOOLEAN :
          prompt' = [prompt EXCEPT
                       !.inst[i].pc = "done",
                       !.injected = IF success
                                    THEN @ \cup {<< i, prompt.inst[i].pendingPrompt[1] >>}
                                    ELSE @]
    /\ UNCHANGED << app, rq, lastAnalysisPrompt, storedKey, saveLog, ev, svc, parse,
                    fix, cache, video, tabs >>

NextPrompt ==
    \/ StorePendingPromptForService
    \/ \E i \in Instances : ContentScriptLoads(i)
    \/ \E i \in Instances : StorageGetSettles(i)
    \/ \E i \in Instances : StorageRemoveSettles(i)
    \/ \E i \in Instances : InjectPromptSettles(i)

SpecPrompt == Init /\ [][NextPrompt]_vars

\* --------------------------------------------- the background script
\* chrome.action.setIcon inside setIconState: the icon of an open tab changes;
\* for a closed tab the call rejects and setIconState swallows the rejection
SetIconState(icon, open, tabId, state) ==
    IF tabId \in open THEN [icon EXCEPT ![tabId] = state] ELSE icon

\* resetIcon
ResetIcon(icon, open, tabId) == SetIconState(icon, open, tabId, "default")

\* checkCaptionsForTab up to its chrome.tabs.sendMessage: the icon shows
\* 'checking' and the CHECK_CAPTIONS message is under way
CheckStarted(t, tabId) ==
    [t EXCEPT !.icon = SetIconState(t.icon, t.open, tabId, "checking"),
              !.running[tabId] = @ + 1]

\* a caption check of the tab may be added
MayCheck(tabId) == tabs.scheduled[tabId] + tabs.running[tabId] < MaxChecks

\* the replies chrome.tabs.sendMessage can settle with: "captions", "none"
\* (no captions, or no usable response), "rejected" (no receiver).  A closed
\* tab has no receiver.
CheckReplies(tabId) ==
    IF tabId \in tabs.open THEN {"captions", "none", "rejected"} ELSE {"rejected"}

\* what checkCaptionsForTab stores for a reply: true, false, null
StoredFor(reply) ==
    CASE reply = "captions" -> << TRUE >>
      [] reply = "none" -> << FALSE >>
      [] OTHER -> << >>

\* tabs.onUpdated with status 'complete', and webNavigation
\* .onHistoryStateUpdated, for a tab: a video page schedules a caption check
\* in 1500 ms, any other page drops the state of the tab and resets its icon
PageChanged(tabId, isVideo) ==
    IF isVideo
    THEN [tabs EXCEPT !.scheduled[tabId] = @ + 1]
    ELSE [tabs EXCEPT !.tabCaptionState = MapDelete(@, tabId),
                      !.icon = ResetIcon(@, tabs.open, tabId)]

\* chrome.tabs.onUpdated listener
TabUpdated(tabId) ==
    /\ tabId \in tabs.open
    /\ \E isVideo \in BOOLEAN :
          /\ isVideo => MayCheck(tabId)
          /\ tabs' = PageChanged(tabId, isVideo)
    /\ UNCHANGED << app, rq, lastAnalysisPrompt, storedKey, saveLog, ev, svc, parse,
                    fix, cache, video, prompt >>

\* chrome.webNavigation.onHistoryStateUpdated listener
HistoryStateUpdated(tabId) ==
    /\ tabId \in tabs.open
    /\ \E isVideo \in BOOLEAN :
          /\ isVideo => MayCheck(tabId)
          /\ tabs' = PageChanged(tabId, isVideo)
    /\ UNCHANGED << app, rq, lastAnalysisPrompt, storedKey, saveLog, ev, svc, parse,
                    fix, cache, video, prompt >>

\* the 1500 ms timer of a scheduled check fires: checkCaptionsForTab starts
CaptionCheckTimerFires(tabId) ==
    /\ tabs.scheduled[tabId] > 0
    /\ tabs' = CheckStarted([tabs EXCEPT !.scheduled[tabId] = @ - 1], tabId)
    /\ UNCHANGED << app, rq, lastAnalysisPrompt, storedKey, saveLog, ev, svc, parse,
                    fix, cache, video, prompt >>

\* chrome.tabs.sendMessage of checkCaptionsForTab settles: the state of the
\* tab is stored and the icon set
CaptionCheckSettles(tabId) ==
    /\ tabs.running[tabId] > 0
    /\ \E reply \in CheckReplies(tabId) :
          tabs' = [tabs EXCEPT
                     !.running[tabId] = @ - 1,
                     !.tabCaptionState = MapSet(@, tabId, StoredFor(reply)),
                     !.icon = SetIconState(@, tabs.open, tabId,
                                           IF reply = "captions" THEN "available"
                                           ELSE "default")]
    /\ UNCHANGED << app, rq, lastAnalysisPrompt, storedKey, saveLog, ev, svc, parse,
                    fix, cache, video, prompt >>

\* chrome.tabs.onActivated listener: a video page shows the icon of the state
\* kept for the tab, or checks the captions when none is known
TabActivated(tabId) ==
    /\ tabId \in tabs.open
    /\ \E isVideo \in BOOLEAN :
          LET known == tabId \in DOMAIN tabs.tabCaptionState
              cachedState == IF known THEN tabs.tabCaptionState[tabId] ELSE << >>
          IN  IF ~isVideo
              THEN tabs' = [tabs EXCEPT !.icon = ResetIcon(@, tabs.open, tabId)]
              ELSE IF cachedState = << TRUE >>
              THEN tabs' = [tabs EXCEPT
                              !.icon = SetIconState(@, tabs.open, tabId, "available")]
              ELSE IF cachedState = << FALSE >>
              THEN tabs' = [tabs EXCEPT !.icon = ResetIcon(@, tabs.open, tabId)]
              ELSE /\ MayCheck(tabId)
                   /\ tabs' = CheckStarted(tabs, tabId)
    /\ UNCHANGED << app, rq, lastAnalysisPrompt, storedKey, saveLog, ev, svc, parse,
                    fix, cache, video, prompt >>

\* runtime.onMessage, CAPTION_STATUS_UPDATE from the content script of a tab
CaptionStatusUpdate(tabId) ==
    /\ tabId \in tabs.open
    /\ \E hasCaptions \in BOOLEAN :
          tabs' = [tabs EXCEPT
                     !.tabCaptionState = MapSet(@, tabId, << hasCaptions >>),
                     !.icon = SetIconState(@, tabs.open, tabId,
                                           IF hasCaptions THEN "available"
                                           ELSE "default")]
    /\ UNCHANGED << app, rq, lastAnalysisPrompt, storedKey, saveLog, ev, svc, parse,
                    fix, cache, video, prompt >>

\* runtime.onMessage, REFRESH_CAPTION_CHECK: checkCaptionsForTab at once
RefreshCaptionCheck(tabId) ==
    /\ tabId \in tabs.open
    /\ MayCheck(tabId)
    /\ tabs' = CheckStarted(tabs, tabId)
    /\ UNCHANGED << app, rq, lastAnalysisPrompt, storedKey, saveLog, ev, svc, parse,
                    fix, cache, video, prompt >>

\* chrome.tabs.onRemoved listener: the tab is closed, its state is dropped
TabRemoved(tabId) ==
    /\ tabId \in tabs.open
    /\ tabs' = [tabs EXCEPT !.open = @ \ {tabId},
                            !.tabCaptionState = MapDelete(@, tabId)]
    /\ UNCHANGED << app, rq, lastAnalysisPrompt, storedKey, saveLog, ev, svc, parse,
                    fix, cache, video, prompt >>

NextTabs ==
    \/ \E tabId \in Tabs : TabUpdated(tabId)
    \/ \E tabId \in Tabs : HistoryStateUpdated(tabId)
    \/ \E tabId \in Tabs : CaptionCheckTimerFires(tabId)
    \/ \E tabId \in Tabs : CaptionCheckSettles(tabId)
    \/ \E tabId \in Tabs : TabActivated(tabId)
    \/ \E tabId \in Tabs : CaptionStatusUpdate(tabId)
    \/ \E tabId \in Tabs : RefreshCaptionCheck(tabId)
    \/ \E tabId \in Tabs : TabRemoved(tabId)

SpecTabs == Init /\ [][NextTabs]_vars

\* =========================================================== properties
\* request r takes a step: its position or one of its wrappers moves
StepOf(r) == rq'[r] # rq[r]

\* request r had been superseded (its token cancelled) when the step began
Superseded(r) == app.cancelled[r]

\* C1: once a newer handleSummarize call has cancelled the token of request r,
\* no later step of r (generation success, improveResult success or failure)
\* changes the displayed result or issues a saveSummary call.
C1_SupersededNeverSetsResultNorSaves ==
    [][\A r \in Requests :
          (Superseded(r) /\ StepOf(r)) =>
              (app'.result = app.result /\ saveLog' = saveLog)]_vars

\* C1 case: the improve phase of a superseded request settles while the result
\* of a newer request is displayed.
C1_LateImproveAfterNewerResult ==
    /\ ev.kind = "improve"
    /\ ev.ret = "cancelled"
    /\ app.result # << >>
    /\ app.result[1].src # ev.r

\* the shared state handleSummarize writes after an await
SharedState(a) ==
    << a.hasCaptions, a.transcriptLength, a.retryAttempt, a.result, a.status,
       a.isImproving, a.canManualRetry, a.manualRetryTimer, a.credentials >>

\* C2: every write of handleSummarize after an await is guarded by the token,
\* so a step of a superseded request changes none of hasCaptions, transcript
\* length, retryAttempt, result, status, isImproving, canManualRetry, the
\* manual-retry timer and credentials.
C2_SupersededChangesNoSharedState ==
    [][\A r \in Requests :
          (Superseded(r) /\ StepOf(r)) =>
              SharedState(app') = SharedState(app)]_vars

\* C3: when the validation call of improveResult throws, the step in which
\* the improve phase settles leaves the displayed result as it was, and for a
\* request that has not been superseded that is its preliminary result
\* (summary, keyMoments and customAnswer).
C3_ValidationThrowKeepsPreliminary ==
    [][\A r \in Requests :
          (rq[r].pc = "improve" /\ StepOf(r) /\ ev'.validation = "threw") =>
              /\ app'.result = app.result
              /\ ~Superseded(r) => app'.result = rq[r].initialResult]_vars

\* C3 case: a question request whose validation call threw has settled and
\* its result, with the answer, is displayed.
C3_SettledAfterValidationThrow ==
    /\ ev.kind = "improve"
    /\ ev.validation = "threw"
    /\ ev.ret = "improved"
    /\ app.result # << >>
    /\ app.result[1].src = ev.r
    /\ app.result[1].customAnswer # << >>

\* C4: the step in which the improve phase of a request settles never changes
\* status, error or the error modal, whatever the outcome of the validation;
\* a request that has not been superseded ends in SUCCESS with a result
\* displayed and the modal closed.
C4_ImproveNeverRaisesError ==
    [][\A r \in Requests :
          (rq[r].pc = "improve" /\ StepOf(r)) =>
              /\ app'.status = app.status
              /\ app'.showErrorModal = app.showErrorModal
              /\ app'.error = app.error
              /\ ~Superseded(r) =>
                    /\ app'.status = "SUCCESS"
                    /\ ~app'.showErrorModal
                    /\ app'.result # << >>]_vars

\* C4 case: applyCorrections threw inside improveResult and the request ended
\* with its preliminary result displayed.
C4_CorrectionsThrewResultKept ==
    /\ ev.kind = "improve"
    /\ ev.validation = "correctionsThrew"
    /\ ev.ret = "kept"
    /\ app.status = "SUCCESS"
    /\ app.result # << >>

\* C5: a wrapper starts its operation at most 3 times; an attempt that times
\* out is followed by the next attempt while fewer than 3 were started, and
\* the third time-out rejects the wrapper; handleSummarize, awaiting it and not
\* superseded, then shows the timeout message, not the network message.
C5_ThreeAttemptsThenTimeout ==
    [][\A r \in Requests, op \in Ops :
          /\ rq'[r].sub[op].attempt <= 3
          /\ WrapperRejects(r, op, TimeoutErr) =>
                IF rq[r].sub[op].attempt < 3
                THEN /\ rq'[r].sub[op].st = "run"
                     /\ rq'[r].sub[op].attempt = rq[r].sub[op].attempt + 1
                ELSE /\ rq'[r].sub[op].st # "run"
                     /\ (rq[r].pc = "gen" /\ ~Superseded(r)) =>
                           /\ app'.status = "ERROR"
                           /\ app'.error = << "errors.timeout" >>
                           /\ app'.error # << "errors.networkError" >>]_vars

\* C5 case: the third attempt of a wrapper timed out and the timeout message
\* is shown.
C5_ThirdTimeoutReported ==
    /\ ev.kind = "rejected"
    /\ ev.err = TimeoutErr
    /\ ev.attempt = 3
    /\ ev.ret = "error"
    /\ app.error = << "errors.timeout" >>

\* errors withTimeoutAndRetry does not retry: a provider auth rejection and an
\* undecodable model response
NonRetryableErrors == {AuthErr, ParseErr}

\* C6: when an attempt fails with a non-retryable error the wrapper starts no
\* further attempt, whatever the attempt number, and handleSummarize, awaiting
\* it and not superseded, catches that same error.
C6_NonRetryableAbortsWrapper ==
    [][\A r \in Requests, op \in Ops, e \in NonRetryableErrors :
          WrapperRejects(r, op, e) =>
              /\ rq'[r].sub[op].st # "run"
              /\ (rq[r].pc = "gen" /\ ~Superseded(r)) =>
                    \/ rq'[r].pc = "clearKey" /\ rq'[r].err = << e >>
                    \/ /\ rq'[r].pc = "done"
                       /\ app'.errorDetails = << FormattedDetails(e) >>]_vars

\* C6 case: the first attempt failed with an undecodable response and that
\* error is the one reported.
C6_ParseErrorOnFirstAttempt ==
    /\ ev.kind = "rejected"
    /\ ev.err = ParseErr
    /\ ev.attempt = 1
    /\ ev.ret = "error"
    /\ app.errorDetails = << FormattedDetails(ParseErr) >>

\* C7: the stored credentials are cleared when and only when the generation
\* phase failed with an auth error: a request whose catch classified its
\* error as an auth failure ends with the stored key removed, credentials
\* null and the api-key-invalid error shown, and no other step changes the
\* stored key or the credentials.
C7_ClearedIffAuthFailure ==
    [][/\ \A r \in Requests :
             (rq[r].pc = "clearKey" /\ StepOf(r)) =>
                 /\ storedKey' = << >>
                 /\ app'.credentials = << >>
                 /\ app'.error = << "errors.apiKeyInvalid" >>
       /\ (storedKey' # storedKey \/ app'.credentials # app.credentials) =>
             \E r \in Requests :
                 /\ rq[r].pc = "clearKey"
                 /\ StepOf(r)
                 /\ IsAuthErr(rq[r].err[1])]_vars

\* C8: a request with a question starts both wrappers; its preliminary result
\* is displayed only in the step in which the second of them fulfils; when
\* either is rejected while the request is not superseded, no result is
\* displayed and the request ends in status ERROR.
C8_BothCallsOrError ==
    [][\A r \in Requests :
          /\ (rq[r].pc # "gen" /\ rq'[r].pc = "gen" /\ rq'[r].userQuery) =>
                \A op \in Ops : rq'[r].sub[op].st = "run"
          /\ (rq[r].userQuery /\ app'.result # app.result /\ app'.result # << >>
              /\ app'.result[1].src = r /\ rq[r].pc = "gen") =>
                \E op \in Ops :
                    /\ rq[r].sub[op].st = "run"
                    /\ \A o \in Ops \ {op} : rq[r].sub[o].st = "ok"
          /\ (rq[r].userQuery /\ ~Superseded(r) /\ rq[r].pc \in {"gen", "clearKey"}
              /\ rq'[r].pc = "done") =>
                /\ app'.result = << >>
                /\ app'.status = "ERROR"]_vars

\* C8 without its end state: no result of a question request is displayed
\* unless both calls fulfilled, and a rejected wrapper leaves no result.
C8_NoPartialResult ==
    [][\A r \in Requests :
          /\ (rq[r].userQuery /\ app'.result # app.result /\ app'.result # << >>
              /\ app'.result[1].src = r /\ rq[r].pc = "gen") =>
                \E op \in Ops :
                    /\ rq[r].sub[op].st = "run"
                    /\ \A o \in Ops \ {op} : rq[r].sub[o].st = "ok"
          /\ (rq[r].userQuery /\ ~Superseded(r) /\ rq[r].pc = "gen"
              /\ rq'[r].pc \in {"done", "clearKey"}) =>
                app'.result = << >>]_vars

\* C9: when the transcript is empty or shorter than 50 characters the request
\* returns through the catch with the transcript-too-short error: no wrapper
\* is created, improveResult is not called, lastAnalysisPrompt and the cache
\* are untouched, and unless the request was superseded the error is shown.
C9_ShortTranscriptNoCalls ==
    [][\A r \in Requests :
          (rq[r].pc \in {"extract", "reinject"} /\ StepOf(r)
           /\ ev'.kind = "extracted" /\ ev'.len < 50) =>
              /\ ev'.err = TranscriptShortErr
              /\ rq'[r].pc = "done"
              /\ \A op \in Ops : rq'[r].sub[op].st = "none"
              /\ lastAnalysisPrompt' = lastAnalysisPrompt
              /\ saveLog' = saveLog
              /\ ~Superseded(r) =>
                    /\ app'.status = "ERROR"
                    /\ app'.error = << "errors.transcriptShort" >>]_vars

\* C9 case: a transcript of 49 characters was refused.
C9_TranscriptOf49Refused ==
    /\ ev.kind = "extracted"
    /\ ev.len = 49
    /\ ev.ret = "error"
    /\ app.error = << "errors.transcriptShort" >>
    /\ saveLog = << >>

\* credentials missing, or a key that is empty or only whitespace
BlankCredentials(credentials) ==
    credentials = << >> \/ credentials[1] \in {"", " "}

\* C10: a call of answerUserQuestion, analyzeVideo or improveResult with
\* missing credentials or an empty or whitespace key is rejected with the
\* credentials error, having built no prompt, not written lastAnalysisPrompt,
\* constructed no model and invoked none.
C10_BlankCredentialsRejectedFirst ==
    \A c \in 1..MaxCalls :
        (svc[c].pc # "idle" /\ BlankCredentials(svc[c].credentials)) =>
            /\ svc[c].pc = "rejected"
            /\ svc[c].err = CredentialsErr
            /\ ~svc[c].promptBuilt
            /\ ~svc[c].wrotePrompt
            /\ ~svc[c].llm
            /\ ~svc[c].invoked

\* C10 case: analyzeVideo called with a whitespace key after an earlier call
\* wrote lastAnalysisPrompt; the earlier prompt is still there.
C10_WhitespaceKeyAfterPrompt ==
    /\ svc[2].fn = "analyzeVideo"
    /\ svc[2].credentials = << " " >>
    /\ svc[2].pc = "rejected"
    /\ lastAnalysisPrompt = << 1 >>

\* the three decodings of a raw text, in order: the text itself, the contents
\* of its fenced block, its first-brace-to-last-brace substring
Decodings(raw) ==
    << raw >>
    \o (IF FencedGroup(raw) # << >> THEN << TrimText(FencedGroup(raw)[1]) >> ELSE << >>)
    \o BraceSlice(raw)

\* the first valid decoding is returned; an error only when none is valid
FirstValidDecoding(raw) ==
    LET valid == {i \in 1..Len(Decodings(raw)) : JSONValid(Decodings(raw)[i])} IN
    IF valid = {} THEN ParseThrows
    ELSE Parsed(Decodings(raw)[MinOf(valid)])

\* C11: parseJsonContent tries the raw text, then the contents of a fenced
\* block, then the substring from the first '{' to the last '}', returns the
\* first that is valid JSON and throws only when all three fail.
C11_ThreeDecodingsInOrder ==
    parse.pc = "done" =>
        [threw |-> parse.threw, value |-> parse.value] = FirstValidDecoding(parse.raw)

\* a validateAndFixResult call has returned a result
Fixed == fix.pc = "done" /\ fix.fn = "improveResult" /\ ~fix.threw

\* C12: when the validation reports isValid = true, validateAndFixResult never
\* invokes applyCorrections, whatever the issues contain; the output is the
\* input with only the keyMoments safety filter applied.
C12_ValidVerdictAppliesNoCorrection ==
    Fixed /\ fix.validation.isValid =>
        /\ ~fix.applied
        /\ fix.out = [fix.result EXCEPT !.keyMoments = SanitizeKeyMoments(@)]

\* a valid verdict came with three issues, and the result kept its summary,
\* its answer and its three moments
C12_ValidVerdictWithIssues ==
    /\ Fixed
    /\ fix.validation.isValid
    /\ fix.validation.issues # << >>
    /\ Len(fix.validation.issues[1]) = 3
    /\ fix.validation.issues[1][1] = RemoveMoment(0)
    /\ fix.out = fix.result
    /\ Len(fix.out.keyMoments) = 3

\* a key moment whose timestamp and description are trimmed, non-empty strings
CleanMoment(m) ==
    /\ m.timestamp \notin {"", NonString}
    /\ m.description \notin {"", NonString}
    /\ Trim(m.timestamp) = m.timestamp
    /\ Trim(m.description) = m.description

\* the entries of a list that have a non-empty trimmed timestamp and description
PassingMoments(moments) ==
    {i \in 1..Len(moments) : /\ StringOrEmpty(moments[i].timestamp) # ""
                             /\ StringOrEmpty(moments[i].description) # ""}

\* the key moments a call had before its final filter
Unfiltered ==
    IF fix.fn = "analyzeVideo" THEN (IF fix.isArray THEN fix.result.keyMoments ELSE << >>)
    ELSE IF fix.applied THEN ApplyCorrections(fix.result, fix.validation.issues[1]).keyMoments
    ELSE fix.result.keyMoments

\* C13: every result analyzeVideo or improveResult returns has only key
\* moments with a non-empty trimmed timestamp and description; the entries
\* that fail this are dropped, the others kept.
C13_ReturnedMomentsAreClean ==
    fix.pc = "done" /\ fix.fn \in {"analyzeVideo", "improveResult"} /\ ~fix.threw =>
        /\ \A i \in 1..Len(fix.out.keyMoments) : CleanMoment(fix.out.keyMoments[i])
        /\ Len(fix.out.keyMoments) = Cardinality(PassingMoments(Unfiltered))

\* a correction replaced a moment's description by a blank one and the moment
\* was dropped from the improved result
C13_BlankCorrectionDropped ==
    /\ Fixed
    /\ fix.applied
    /\ fix.result.keyMoments = << Moment1, Moment2, Moment3 >>
    /\ fix.validation.issues[1] =
          << Issue("keyMoments", << 1 >>, "replace", << ObjectValue("", " ", "", << >>) >>) >>
    /\ fix.out.keyMoments = << Moment1, Moment3 >>

\* the issues of an applyCorrections call are removals of key moments at
\* different positions of the list
OnlyRemovals ==
    /\ fix.pc = "done"
    /\ fix.fn = "applyCorrections"
    /\ Len(fix.validation.issues[1]) > 0
    /\ \A i \in 1..Len(fix.validation.issues[1]) :
          /\ fix.validation.issues[1][i].field = "keyMoments"
          /\ fix.validation.issues[1][i].action = "remove"
          /\ fix.validation.issues[1][i].index[1] < Len(fix.result.keyMoments)

\* the positions (from 0) the removals name
RemovedPositions ==
    {fix.validation.issues[1][i].index[1] : i \in 1..Len(fix.validation.issues[1])}

\* C14: removals of key moments at distinct in-range indices, in any order,
\* delete exactly those original positions and keep the rest in order.
C14_RemovalsDeleteOriginalPositions ==
    OnlyRemovals =>
        LET original == fix.result.keyMoments
            kept == {p \in 1..Len(original) : (p - 1) \notin RemovedPositions}
            Nth(i) == CHOOSE p \in kept : Cardinality({q \in kept : q < p}) = i - 1
        IN  fix.out.keyMoments = [i \in 1..Cardinality(kept) |-> original[Nth(i)]]

\* removals at 0 and 2, given in ascending order, of a list of three leave the
\* original element 1
C14_RemoveFirstAndLast ==
    /\ OnlyRemovals
    /\ fix.validation.issues[1] = << RemoveMoment(0), RemoveMoment(2) >>
    /\ fix.result.keyMoments = << Moment1, Moment2, Moment3 >>
    /\ fix.out.keyMoments = << Moment2 >>

\* every stored entry was created no later than it was updated
CreatedBeforeUpdated(store) ==
    \A e \in AllEntries(store) : e.createdAt <= e.updatedAt

\* a saveSummary call stored its entry in this step
Saved(id, p) ==
    /\ SaveSummary(id, p)
    /\ cache'.last = CacheOutcome("saveSummary", id, "resolved", << >>, {})

C16_NoCacheOperationRejects == cache.last.outcome # "rejected"

\* the saveSummary calls request r has made
SavesOf(log, r) == {i \in 1..Len(log) : log[i].req = r}

\* C17: a request that is not superseded calls saveSummary exactly once, when
\* improveResult has settled, with the result displayed at that moment (the
\* improved one on success, the preliminary one on failure); nothing is
\* written to the cache while the request is generating or improving.
C17_SavedOnceWhenImproveSettles ==
    [][/\ \A r \in Requests :
            ImproveSettles(r) /\ ~Superseded(r) =>
               /\ Len(saveLog') = Len(saveLog) + 1
               /\ SubSeq(saveLog', 1, Len(saveLog)) = saveLog
               /\ saveLog'[Len(saveLog')].req = r
               /\ app'.result = << saveLog'[Len(saveLog')].result >>
               /\ IF ev'.ret = "improved"
                  THEN \E v \in ValidationPayloads \cup {ValidationOnFailure} :
                          /\ ~ValidateAndFixThrows(v)
                          /\ saveLog'[Len(saveLog')].result =
                                ValidateAndFixResult(rq[r].initialResult[1], v)
                  ELSE saveLog'[Len(saveLog')].result = rq[r].initialResult[1]
               /\ ~app'.isImproving
       /\ saveLog' # saveLog =>
             \E r \in Requests : ImproveSettles(r) /\ ~Superseded(r)
       /\ \A r \in Requests : Cardinality(SavesOf(saveLog', r)) <= 1]_vars

\* the improvement of the second request failed and its preliminary result,
\* still displayed, was written to the cache
C17_PreliminarySavedAfterFailure ==
    /\ ev.kind = "improve"
    /\ ev.r = 2
    /\ ev.ret = "kept"
    /\ Len(saveLog) >= 1
    /\ saveLog[Len(saveLog)].req = 2
    /\ app.result = << saveLog[Len(saveLog)].result >>
    /\ app.result[1].src = 2
    /\ ~app.isImproving

\* request r, not superseded, returns in this step from a failure of the
\* extraction or of the generation
FailsBeforeResult(r) ==
    /\ StepOf(r)
    /\ ~Superseded(r)
    /\ rq[r].pc \in {"caption", "extract", "reinject", "gen", "clearKey"}
    /\ rq'[r].pc = "done"

\* C18: every handleSummarize call that fails during extraction or generation
\* and is not superseded ends with status ERROR, the error modal open and a
\* classified message with its details; it never remains in LOADING.
C18_FailureEndsInErrorModal ==
    [][\A r \in Requests :
          FailsBeforeResult(r) =>
             /\ app'.status = "ERROR"
             /\ app'.showErrorModal
             /\ app'.error # << >>
             /\ app'.errorDetails # << >>]_vars

\* C20: the original prompt improveResult passes on is the prompt the same
\* request's analyzeVideo wrote to lastAnalysisPrompt; no analyzeVideo of
\* another request writes between that write and the read.
C20_ImproveReadsOwnPrompt ==
    [][\A r \in Requests :
          rq[r].pc # "improve" /\ rq'[r].pc = "improve" =>
             rq'[r].originalPrompt = << r >>]_vars

\* C19: every provider call, the validation call of the improve phase
\* included, is bounded by a timeout: when the provider never answers the
\* validation call, the request still leaves the improve phase.
C19_ImprovePhaseEnds ==
    \A r \in Requests :
        (rq[r].pc = "improve" /\ ~Superseded(r))
            ~> (rq[r].pc # "improve" \/ Superseded(r))

\* an applyCorrections call has returned
Corrected == fix.pc = "done" /\ fix.fn = "applyCorrections"

\* the positions, in the order applyCorrections processes the issues, of the
\* keyMoments issues that are removals, and of those that are not
RemovalsIn(order) ==
    {i \in 1..Len(order) : order[i].field = "keyMoments" /\ order[i].action = "remove"}

OthersIn(order) ==
    {i \in 1..Len(order) : order[i].field = "keyMoments" /\ order[i].action # "remove"}

\* C21: applyCorrections processes the issues of keyMoments so that every
\* remove is applied, in descending index order, before any replace or add on
\* keyMoments.
C21_RemovalsBeforeOtherCorrections ==
    Corrected =>
        /\ \A i \in RemovalsIn(fix.order), j \in OthersIn(fix.order) : i < j
        /\ \A i, j \in RemovalsIn(fix.order) :
              i < j => IndexOrZero(fix.order[i]) >= IndexOrZero(fix.order[j])

\* the issues of the customAnswer field in a list
AnswerIssues(issues) == {i \in 1..Len(issues) : issues[i].field = "customAnswer"}

\* C22: for a customAnswer issue applyCorrections sets customAnswer to the
\* text and relatedSegments of the correction when the action is replace or
\* add and a value is given, whether or not the result has a customAnswer,
\* and deletes customAnswer when the action is remove.
C22_AnswerCorrectionSetsOrDeletes ==
    Corrected /\ Cardinality(AnswerIssues(fix.validation.issues[1])) = 1 =>
        LET issue == fix.validation.issues[1][
                        CHOOSE i \in AnswerIssues(fix.validation.issues[1]) : TRUE]
        IN  IF issue.action = "remove" THEN fix.out.customAnswer = << >>
            ELSE Truthy(issue.value) =>
                   fix.out.customAnswer =
                      << [text |-> issue.value[1].text,
                          relatedSegments |-> issue.value[1].relatedSegments] >>

C23_AnswerOnlyForQuestion ==
    [][/\ (app'.result # app.result /\ app'.result # << >>
           /\ app'.result[1].customAnswer # << >>) =>
              rq[app'.result[1].src].userQuery
       /\ \A i \in 1..Len(saveLog') :
             saveLog'[i].result.customAnswer # << >> => saveLog'[i].userQuery]_vars

\* wrapper op of request r starts a provider attempt in this step
AttemptStarts(r, op) ==
    /\ rq'[r].sub[op].st = "run"
    /\ rq[r].sub[op].st # "run" \/ rq'[r].sub[op].attempt # rq[r].sub[op].attempt

\* C26: after a request has been superseded by a new handleSummarize call, its
\* withTimeoutAndRetry wrappers start no further provider attempt.
C26_SupersededStartsNoAttempt ==
    [][\A r \in Requests, op \in Ops : Superseded(r) => ~AttemptStarts(r, op)]_vars

\* a request that is not superseded is in its improve phase
ActiveImproving == \E r \in Requests : ~Superseded(r) /\ rq[r].pc = "improve"

\* C27: isImproving is true exactly while the active request is between the
\* display of its preliminary result and the settling of its improveResult
\* call; the late improve completion of a superseded request never sets it to
\* false while the newer request is improving.
C27_ImprovingIffActiveImproves == app.isImproving <=> ActiveImproving

\* C25: when the current video changes while a handleSummarize request is in
\* flight, the preliminary or improved result of that request is never
\* displayed afterwards as the result of the new video.
C25_StaleResultNeverDisplayed ==
    [][\A r \in video.stale :
          (app'.result # app.result /\ app'.result # << >>) =>
              app'.result[1].src # r]_vars

\* C28: a cached-summary load started by a video change that resolves after
\* handleSummarize has started changes neither result nor status nor
\* isFromCache: while the request is generating, status stays LOADING and
\* result stays null.
C28_LateCacheLoadChangesNothing ==
    [][CachedLoadResolves /\ app.status = "LOADING" =>
          /\ app'.result = app.result
          /\ app'.status = app.status
          /\ app'.isFromCache = app.isFromCache]_vars

\* the instances that injected prompt p
InjectedBy(p) == {i \in Instances : << i, p >> \in prompt.injected}

\* C29: a prompt stored by storePendingPromptForService is injected at most
\* once: of the content-script instances that run checkPendingPrompt on the
\* same stored prompt, at most one injects it into a chat.
C29_PromptInjectedAtMostOnce ==
    \A p \in 1..MaxPrompts : Cardinality(InjectedBy(p)) <= 1

\* the tabs tabs.onRemoved has fired for
RemovedTabs == Tabs \ tabs.open

\* C30: tabCaptionState holds entries only for open tabs: once tabs.onRemoved
\* has fired for a tab the map has no entry for it, also when a caption check
\* scheduled before the removal runs after it.
C30_StateOnlyForOpenTabs ==
    \A tabId \in RemovedTabs : tabId \notin DOMAIN tabs.tabCaptionState

====
